---------------------------- MODULE Spec2Model ----------------------------
(***************************************************************************)
(* A model of the RLWE secure-aggregation engine RlweSecAgg                *)
(* (src/rlwe_sa/cc/shell_encryption_api.h) and of the sampler it relies on *)
(* (src/rlwe_sa/cc/shell_encryption/sample_error.h).                       *)
(*                                                                         *)
(* Ring elements are kept as their coefficient vectors modulo q.  The      *)
(* library stores them in NTT and Montgomery form; both are bijections     *)
(* that commute with the ring operations, so equality, sums and products   *)
(* of stored polynomials are equality, sums and negacyclic products of the *)
(* coefficient vectors.  The ring degree N and the ciphertext modulus q    *)
(* are scaled down (2048 -> 2, 80 bits -> 20 bits); the plaintext width,   *)
(* the variance and the key-channel modulus p keep their program values.   *)
(***************************************************************************)
EXTENDS Integers, Sequences, FiniteSets, TLC

(***************************************************************************)
(* Bounds of the model.                                                    *)
(***************************************************************************)
\* Ring degree (GetN()); the engine uses log_n = 11.
N == 2
\* Ciphertext modulus, standing for kModulus80.
q == 1048573
\* Largest number of chunks K = input_size / N of an engine.
MaxSplit == 2
\* PRNG seeds are 1..MaxSeed; 0 stands for the empty string.
MaxSeed == 2
\* Clients folded into one aggregate.
MaxClients == 3
\* Keys folded into one key sum.
MaxKeys == 154
\* Bits of one output of the plaintext generator, standing for the 32 of
\* std::mt19937.
MtBits == 16
\* Largest num_coeffs SamplePlaintext and the samplers are called with.
MaxCoeffs == 4
\* Bits of the unsigned ModularInt::Int, standing for 128.
IntBits == 24
\* Bytes of one buffer of the ChaCha PRNG, standing for 255 * 32.
kChaChaOutputBytes == 5
\* Calls made on one PRNG stream.
MaxCalls == 4
\* Bits of Uint64, standing for 64: above the plaintext widths of the
\* tests, below those of the modulus and of Int.
UInt64Bits == 16
\* Bits of int, standing for 32: below those of the modulus.
IntWidthBits == 11

(***************************************************************************)
(* Program constants.                                                      *)
(***************************************************************************)
\* kNewhopeModulus, the modulus of the key channel.
p == 12289
\* Parameters.variance of the engine: std::pow(4.5, 2) as an integer.
variance == 20
\* log_t of the engines built by the tests.
kTestLogT == 11
\* Largest variance the samplers accept.
kMaxVariance == 256
\* log_n of the contexts the engine creates: rings of degree 1 << 11.
kLogN == 11
\* log_t of the keys of the key-switching tests.
kLogPlaintextModulus == 1

NoSeed == 0
Seeds == 1..MaxSeed
\* The fresh seeds drawn while keys are folded into a long key sum.
KeySeeds == {1, 2}

RECURSIVE BitLength(_)
\* log_modulus: the number of bits of x.
BitLength(x) == IF x = 0 THEN 0 ELSE 1 + BitLength(x \div 2)

LogQ == BitLength(q)

\* ModularInt::ImportInt followed by ExportInt: the residue in [0, m).
ImportInt(x, m) == x % m

RECURSIVE CountOnes(_)
\* CountOnesInByte / CountOnes64: the number of set bits.
CountOnes(x) == IF x = 0 THEN 0 ELSE (x % 2) + CountOnes(x \div 2)

(***************************************************************************)
(* SingleThreadHkdfPrng: a byte stream that is a function of the seed.     *)
(* Seed 1 yields the stream whose centered-binomial samples at variance 20 *)
(* alternate between the two extremes +40 and -40; the other seeds yield   *)
(* mixed streams.                                                          *)
(***************************************************************************)
PrngByte(seed, pos) ==
    IF seed = 1
    THEN IF (pos % 20 < 10) = (pos % 2 = 0) THEN 255 ELSE 0
    ELSE (seed * 89 + pos * (2 * seed + 1) * 37 + (pos \div 7) * 113
          + pos * pos * seed) % 256

\* Rand8 at stream position pos.
Rand8(seed, pos) == PrngByte(seed, pos)

RECURSIVE OnesInBytes(_, _, _)
\* CountOnes64(Rand64()): the set bits of the 8 bytes at pos.
OnesInBytes(seed, pos, n) ==
    IF n = 0 THEN 0
    ELSE CountOnes(PrngByte(seed, pos)) + OnesInBytes(seed, pos + 1, n - 1)

(***************************************************************************)
(* SampleFromErrorDistribution, one coefficient: the while loop over k on  *)
(* the unsigned Int `coefficient`.  The result is [c |-> coefficient,      *)
(* pos |-> stream position, drawn |-> the calls made on the PRNG, in       *)
(* order, each with the number of its bits that were counted].             *)
(***************************************************************************)
\* One call on the PRNG, `bits` bits of what it returned being counted.
Draw(call, bits) == [call |-> call, bits |-> bits]

RECURSIVE ErrorLoopAddsBoth(_, _, _, _, _)
\* The loop with "+=" for both draws of a step.
ErrorLoopAddsBoth(coefficient, k, seed, pos, drawn) ==
    IF k = 0 THEN [c |-> coefficient, pos |-> pos, drawn |-> drawn]
    ELSE IF k >= 64
    THEN ErrorLoopAddsBoth((coefficient + OnesInBytes(seed, pos, 8)
                          + OnesInBytes(seed, pos + 8, 8)) % 2 ^ IntBits,
                      k - 64, seed, pos + 16,
                      drawn \o << Draw("Rand64", 64), Draw("Rand64", 64) >>)
    ELSE IF k >= 8
    THEN ErrorLoopAddsBoth((coefficient + CountOnes(Rand8(seed, pos))
                          + CountOnes(Rand8(seed, pos + 1))) % 2 ^ IntBits,
                      k - 8, seed, pos + 2,
                      drawn \o << Draw("Rand8", 8), Draw("Rand8", 8) >>)
    ELSE LET mask == 2 ^ k
         IN  [c |-> (coefficient + CountOnes(Rand8(seed, pos) % mask)
                                 + CountOnes(Rand8(seed, pos + 1) % mask))
                      % 2 ^ IntBits,
              pos |-> pos + 2,
              drawn |-> drawn \o << Draw("Rand8", k), Draw("Rand8", k) >>]

RECURSIVE ErrorLoop(_, _, _, _, _)
ErrorLoop(coefficient, k, seed, pos, drawn) ==
    IF k = 0 THEN [c |-> coefficient, pos |-> pos, drawn |-> drawn]
    ELSE IF k >= 64
    THEN ErrorLoop((coefficient + OnesInBytes(seed, pos, 8)
                  - OnesInBytes(seed, pos + 8, 8)) % 2 ^ IntBits,
              k - 64, seed, pos + 16,
              drawn \o << Draw("Rand64", 64), Draw("Rand64", 64) >>)
    ELSE IF k >= 8
    THEN ErrorLoop((coefficient + CountOnes(Rand8(seed, pos))
                  - CountOnes(Rand8(seed, pos + 1))) % 2 ^ IntBits,
              k - 8, seed, pos + 2,
              drawn \o << Draw("Rand8", 8), Draw("Rand8", 8) >>)
    ELSE LET mask == 2 ^ k
         IN  [c |-> (coefficient + CountOnes(Rand8(seed, pos) % mask)
                                 - CountOnes(Rand8(seed, pos + 1) % mask))
                      % 2 ^ IntBits,
              pos |-> pos + 2,
              drawn |-> drawn \o << Draw("Rand8", k), Draw("Rand8", k) >>]

\* One coefficient with k = variance in the place of variance << 1.
SampleCoefficientKIsVariance(v, seed, pos, modulus) ==
    CHOOSE result \in
        { [c |-> ImportInt(IF r.c >= modulus THEN r.c - modulus ELSE r.c,
                           modulus),
           pos |-> r.pos, drawn |-> r.drawn]
          : r \in { ErrorLoop(modulus, v, seed, pos, << >>) } } : TRUE

\* One coefficient, with one more byte drawn when the coefficient came out
\* as zero.
SampleCoefficientRedrawsOnZero(v, seed, pos, modulus) ==
    CHOOSE result \in
        { LET c == ImportInt(IF r.c >= modulus THEN r.c - modulus ELSE r.c,
                             modulus)
          IN  IF c = 0 /\ v > 0
              THEN [c |-> c, pos |-> r.pos + 1,
                    drawn |-> Append(r.drawn, Draw("Rand8", 0))]
              ELSE [c |-> c, pos |-> r.pos, drawn |-> r.drawn]
          : r \in { ErrorLoop(modulus, 2 * v, seed, pos, << >>) } } : TRUE

\* One coefficient: the loop from `modulus` with k = variance << 1, one
\* subtraction of the modulus if it is reached, ImportInt.
SampleCoefficient(v, seed, pos, modulus) ==
    CHOOSE result \in
        { [c |-> ImportInt(IF r.c >= modulus THEN r.c - modulus ELSE r.c,
                           modulus),
           pos |-> r.pos, drawn |-> r.drawn]
          : r \in { ErrorLoop(modulus, 2 * v, seed, pos, << >>) } } : TRUE

RECURSIVE SampleErrorFrom(_, _, _, _, _)
SampleErrorFrom(num_coeffs, v, seed, pos, modulus) ==
    IF num_coeffs = 0
    THEN [coeffs |-> << >>, pos |-> pos, drawn |-> << >>]
    ELSE CHOOSE result \in UNION
             { { [coeffs |-> << first.c >> \o rest.coeffs, pos |-> rest.pos,
                  drawn |-> << first.drawn >> \o rest.drawn]
                 : rest \in { SampleErrorFrom(num_coeffs - 1, v, seed,
                                              first.pos, modulus) } }
               : first \in { SampleCoefficient(v, seed, pos, modulus) } }
             : TRUE

\* SampleFromErrorDistribution without the check of the variance.
SampleFromErrorDistributionUnchecked(num_coeffs, v, seed, pos, modulus) ==
    LET r == SampleErrorFrom(num_coeffs, v, seed, pos, modulus)
    IN  [status |-> "ok", coeffs |-> r.coeffs, pos |-> r.pos,
         drawn |-> r.drawn]

\* SampleFromErrorDistribution(num_coeffs, variance, prng, modulus_params).
SampleFromErrorDistribution(num_coeffs, v, seed, pos, modulus) ==
    IF v > kMaxVariance
    THEN [status |-> "InvalidArgument", coeffs |-> << >>, pos |-> pos,
          drawn |-> << >>]
    ELSE LET r == SampleErrorFrom(num_coeffs, v, seed, pos, modulus)
         IN  [status |-> "ok", coeffs |-> r.coeffs, pos |-> r.pos,
              drawn |-> r.drawn]

(***************************************************************************)
(* SampleFromDiscreteGaussian.  stddev is in tenths; samples are the       *)
(* signed integers DiscreteGaussianSampler::SampleWithIterations returns,  *)
(* one per coefficient, held in the unsigned Int as two's complement.      *)
(***************************************************************************)
\* DGSampler::kNegativeThreshold: the largest Int that stands for a
\* non-negative sample.
kNegativeThreshold == (2 ^ IntBits - 1) \div 2

\* One sample brought modulo the modulus, before ImportInt.
GaussianCoeffModQ(sample, modulus) ==
    LET coeff       == sample % 2 ^ IntBits
        is_negative == coeff > kNegativeThreshold
    IN  IF is_negative
        THEN modulus - (((2 ^ IntBits - coeff) % 2 ^ IntBits) % modulus)
        ELSE coeff

\* SampleFromDiscreteGaussian storing coeff_mod_q as it is, without
\* ImportInt.
SampleFromDiscreteGaussianUnreduced(num_coeffs, stddev, samples, modulus) ==
    IF stddev < 0
    THEN [status |-> "InvalidArgument", coeffs |-> << >>]
    ELSE [status |-> "ok",
          coeffs |-> [i \in 1..num_coeffs |->
                         GaussianCoeffModQ(samples[i], modulus)]]

\* SampleFromDiscreteGaussian(num_coeffs, stddev, prng, modulus_params).
SampleFromDiscreteGaussian(num_coeffs, stddev, samples, modulus) ==
    IF stddev < 0
    THEN [status |-> "InvalidArgument", coeffs |-> << >>]
    ELSE [status |-> "ok",
          coeffs |-> [i \in 1..num_coeffs |->
                         ImportInt(GaussianCoeffModQ(samples[i], modulus),
                                   modulus)]]

(***************************************************************************)
(* SamplePolynomialFromPrng: each coefficient is a 64-bit draw masked to   *)
(* the bits of q, rejected and redrawn while it is not below q.            *)
(***************************************************************************)
RECURSIVE UniformCoefficient(_, _)
UniformCoefficient(seed, pos) ==
    LET word == PrngByte(seed, pos) + 256 * PrngByte(seed, pos + 1)
                + 65536 * PrngByte(seed, pos + 2)
        masked == word % (2 ^ LogQ)
    IN  IF masked < q THEN [c |-> masked, pos |-> pos + 8]
        ELSE UniformCoefficient(seed, pos + 8)

RECURSIVE SamplePolynomialFromPrng(_, _, _)
SamplePolynomialFromPrng(num_coeffs, seed, pos) ==
    IF num_coeffs = 0 THEN [coeffs |-> << >>, pos |-> pos]
    ELSE LET first == UniformCoefficient(seed, pos)
             rest  == SamplePolynomialFromPrng(num_coeffs - 1, seed, first.pos)
         IN  [coeffs |-> << first.c >> \o rest.coeffs, pos |-> rest.pos]

(***************************************************************************)
(* Arithmetic modulo q on coefficient vectors of length N.                 *)
(***************************************************************************)
\* a * b mod q without leaving 31 bits: b is split at 10 bits.
MulModQ(a, b) ==
    (((a * (b \div 1024)) % q) * 1024 + a * (b % 1024)) % q

PolyAdd(f, g) == [i \in 1..N |-> (f[i] + g[i]) % q]

PolyNeg(f) == [i \in 1..N |-> (q - f[i]) % q]

PolyScale(c, f) == [i \in 1..N |-> MulModQ(c % q, f[i])]

RECURSIVE ConvolveAt(_, _, _, _)
\* Coefficient k (from 0) of f * g modulo X^N + 1: the terms i = from..N-1.
ConvolveAt(f, g, k, from) ==
    IF from = N THEN 0
    ELSE LET j    == (k - from + N) % N
             term == MulModQ(f[from + 1], g[j + 1])
             sgn  == IF from <= k THEN term ELSE (q - term) % q
         IN  (sgn + ConvolveAt(f, g, k, from + 1)) % q

\* Polynomial::Mul in NTT form: the negacyclic product.
PolyMul(f, g) == [i \in 1..N |-> ConvolveAt(f, g, i - 1, 0)]

ZeroPoly == [i \in 1..N |-> 0]

(***************************************************************************)
(* ConvertModulusBalanced: the centered representative of c modulo `from`  *)
(* (c itself up to from / 2, c - from above it), reduced into [0, to).     *)
(***************************************************************************)
ConvertBalanced(c, from, to) ==
    IF c <= from \div 2 THEN c % to ELSE (to - ((from - c) % to)) % to

ConvertModulusBalanced(coeffs, from, to) ==
    [i \in 1..Len(coeffs) |-> ConvertBalanced(coeffs[i], from, to)]

(***************************************************************************)
(* ErrorParams.                                                            *)
(***************************************************************************)
\* ErrorParams::Create: the status it returns.
ErrorParamsCreate(log_t, v, log_modulus) ==
    IF log_t > log_modulus - 1 THEN "InvalidArgument"
    ELSE IF log_t <= 0 THEN "InvalidArgument"
    ELSE IF v > kMaxVariance THEN "InvalidArgument"
    ELSE "ok"

\* ErrorParams::t_, the plaintext modulus (One << log_t) + One.
PlaintextModulus(log_t) == 2 ^ log_t + 1

RECURSIVE SqrtFrom(_, _)
\* The largest r' >= r with r' * r' <= x.
SqrtFrom(x, r) == IF (r + 1) * (r + 1) > x THEN r ELSE SqrtFrom(x, r + 1)

\* sqrt(x) as a fixed-point number, in tenths: searched from ten times
\* the integer part.
Sqrt(x) == SqrtFrom(100 * x, 10 * SqrtFrom(x, 0))

\* ErrorParams::ExportDoubleT: the least 64 bits of t_.
ExportDoubleT(t) == t % 2 ^ UInt64Bits

\* B_encryption with the dimension left out of the product.
B_encryptionWithoutDimension(log_t, v, dimension) ==
    ExportDoubleT(PlaintextModulus(log_t))
      * ((10 * (Sqrt(3) + 6 * Sqrt(v))) \div 100)

\* ErrorParams::B_encryption(dimension, sigma) with sigma = sqrt(variance):
\* ExportDoubleT() * sqrt(dimension) * (sqrt(3) + 6 * sigma), the product
\* of the two fixed-point factors cut to its integer part.
B_encryption(log_t, v, dimension) ==
    ExportDoubleT(PlaintextModulus(log_t))
      * ((Sqrt(dimension) * (Sqrt(3) + 6 * Sqrt(v))) \div 100)

\* The ErrorParams object of a context: the constants its constructor sets.
ErrorParams(log_t, v) ==
    [log_t |-> log_t, b_encryption |-> B_encryption(log_t, v, N)]

(***************************************************************************)
(* SymmetricRlweKey.                                                       *)
(***************************************************************************)
NoKey == [poly |-> << >>, log_t |-> 0, variance |-> 0]

\* SymmetricRlweKey::Sample: a centered-binomial polynomial.
KeySample(v, log_t, seed) ==
    LET s == SampleFromErrorDistribution(N, v, seed, 0, q)
    IN  [status |-> s.status,
         key |-> [poly |-> s.coeffs, log_t |-> log_t, variance |-> v]]

\* SymmetricRlweKey::Add: the sum, for keys of the same parameters.
KeyAdd(k1, k2) ==
    IF k1.log_t # k2.log_t \/ k1.variance # k2.variance
       \/ Len(k1.poly) # Len(k2.poly)
    THEN [status |-> "InvalidArgument", key |-> NoKey]
    ELSE [status |-> "ok",
          key |-> [poly |-> [i \in 1..Len(k1.poly) |->
                                (k1.poly[i] + k2.poly[i]) % q],
                   log_t |-> k1.log_t, variance |-> k1.variance]]

(***************************************************************************)
(* SymmetricRlweCiphertext, rlwe::Encrypt with a given polynomial a,       *)
(* rlwe::Decrypt.                                                          *)
(***************************************************************************)
\* rlwe::Encrypt(key, plaintext, a, error_params, prng):
\* (c0, c1) = (a * s + t * e + m, -a), e drawn from the prng; the error
\* bound of the result is that of a fresh encryption.
RlweEncrypt(k, m, a, error_params, seed, pos) ==
    LET e == SampleFromErrorDistribution(N, k.variance, seed, pos, q)
    IN  IF Len(m) # N \/ Len(k.poly) # N \/ Len(a) # N \/ e.status # "ok"
        THEN [status |-> "InvalidArgument", ct |-> << >>, pos |-> pos]
        ELSE [status |-> "ok",
              ct |-> [c0 |-> PolyAdd(PolyAdd(PolyMul(a, k.poly),
                                      PolyScale(PlaintextModulus(k.log_t),
                                                e.coeffs)),
                                     [i \in 1..N |-> ImportInt(m[i], q)]),
                      c1 |-> PolyNeg(a),
                      len |-> 2,
                      power_of_s |-> 1,
                      error |-> error_params.b_encryption],
              pos |-> e.pos]

\* RemoveError: the centered representative of x modulo q, reduced modulo t.
RemoveError(x, t) == (IF x <= q \div 2 THEN x ELSE x - q) % t

\* rlwe::Decrypt(key, ciphertext) on a ciphertext of two components.
RlweDecrypt(k, c) ==
    LET d == PolyAdd(c.c0, PolyMul(c.c1, k.poly))
    IN  [i \in 1..N |-> RemoveError(d[i], PlaintextModulus(k.log_t))]

\* SymmetricRlweCiphertext::AddInPlaceFst: the first components are added,
\* the other components of x (for a fresh ciphertext the one, -a, common to
\* the clients of one engine) are kept, the error bounds are added.
AddInPlaceFst(x, y) ==
    IF x.power_of_s # y.power_of_s
    THEN [status |-> "InvalidArgument", ct |-> x]
    ELSE [status |-> "ok",
          ct |-> [c0 |-> PolyAdd(x.c0, y.c0), c1 |-> x.c1,
                  len |-> x.len,
                  power_of_s |-> x.power_of_s,
                  error |-> x.error + y.error]]

(***************************************************************************)
(* RlweSecAgg: the private helpers.                                        *)
(***************************************************************************)
\* GetPrg that never looks at the seed it is given.
GetPrgAlwaysFresh(seed, fresh, cur) == [prng_seed |-> fresh, seed |-> fresh]

\* GetPrg(seed): the seed the PRNG is created from and the value of _seed
\* afterwards; fresh is what GenerateSeed() returns when it is called.
GetPrg(seed, fresh, cur) ==
    IF seed # NoSeed THEN [prng_seed |-> seed, seed |-> cur]
    ELSE [prng_seed |-> fresh, seed |-> fresh]

\* splitVector without "start = end": every part is the first one.
splitVectorNoAdvance(input_vector, n) ==
    [i \in 1..n |-> SubSeq(input_vector, 1, Len(input_vector) \div n)]

\* splitVector(input_vector, n) for n >= 1.
splitVector(input_vector, n) ==
    LET partSize == Len(input_vector) \div n
    IN  [i \in 1..n |->
            SubSeq(input_vector, (i - 1) * partSize + 1,
                   IF i = n THEN Len(input_vector) ELSE i * partSize)]

RECURSIVE SampleAs(_, _, _)
\* The constructor's loop: _num_split polynomials from one PRNG.
SampleAs(num_split, seed, pos) ==
    IF num_split = 0 THEN << >>
    ELSE LET a == SamplePolynomialFromPrng(N, seed, pos)
         IN  << a.coeffs >> \o SampleAs(num_split - 1, seed, a.pos)

RECURSIVE EncryptChunksOwnA(_, _, _, _, _, _, _)
\* The loop of Encrypt drawing each a from the call's own PRNG instead of
\* taking _as[i].
EncryptChunksOwnA(k, plaintexts, as, error_params, i, seed, pos) ==
    IF i > Len(plaintexts) THEN [status |-> "ok", cts |-> << >>]
    ELSE LET a   == SamplePolynomialFromPrng(N, seed, pos)
             one == RlweEncrypt(k, plaintexts[i], a.coeffs, error_params,
                                seed, a.pos)
         IN  IF one.status # "ok" THEN [status |-> "abort", cts |-> << >>]
             ELSE LET rest == EncryptChunksOwnA(k, plaintexts, as,
                                                error_params, i + 1, seed,
                                                one.pos)
                  IN  IF rest.status # "ok" THEN rest
                      ELSE [status |-> "ok",
                            cts |-> << one.ct >> \o rest.cts]

RECURSIVE EncryptChunks(_, _, _, _, _, _, _)
\* The loop of RlweSecAgg::Encrypt over the chunks i..Len(plaintexts), with
\* one PRNG for all of them.
EncryptChunks(k, plaintexts, as, error_params, i, seed, pos) ==
    IF i > Len(plaintexts) THEN [status |-> "ok", cts |-> << >>]
    ELSE LET one == RlweEncrypt(k, plaintexts[i], as[i], error_params, seed,
                                pos)
         IN  IF one.status # "ok" THEN [status |-> "abort", cts |-> << >>]
             ELSE LET rest == EncryptChunks(k, plaintexts, as, error_params,
                                            i + 1, seed, one.pos)
                  IN  IF rest.status # "ok" THEN rest
                      ELSE [status |-> "ok",
                            cts |-> << one.ct >> \o rest.cts]

RECURSIVE DecryptChunks(_, _, _, _)
\* The loop of RlweSecAgg::Decrypt over the chunks i..num_split.
DecryptChunks(k, chipertexts, i, num_split) ==
    IF i > num_split THEN << >>
    ELSE RlweDecrypt(k, chipertexts[i])
         \o DecryptChunks(k, chipertexts, i + 1, num_split)

\* ConvertKey reducing each coefficient modulo p as it stands, without
\* taking its centered representative first.
ConvertKeyUnbalanced(k) == [i \in 1..Len(k.poly) |-> k.poly[i] % p]

\* ConvertKey(key): the key's coefficients, converted from q to p.
ConvertKey(k) ==
    LET coeffs_p == ConvertModulusBalanced(k.poly, q, p)
    IN  [i \in 1..Len(coeffs_p) |-> coeffs_p[i]]

\* CreateKey(coeffs_p_int) on an engine of the given log_t.
CreateKey(coeffs_p_int, log_t) ==
    LET coeffs_p == [i \in 1..Len(coeffs_p_int) |->
                        ImportInt(coeffs_p_int[i], p)]
        coeffs_q == ConvertModulusBalanced(coeffs_p, p, q)
    IN  IF Len(coeffs_q) # N THEN [status |-> "abort", key |-> NoKey]
        ELSE [status |-> "ok",
              key |-> [poly |-> coeffs_q, log_t |-> log_t,
                       variance |-> variance]]

\* SumKeys that returns its first argument.
SumKeysFirstOnly(key1, key2) == [status |-> "ok", key |-> key1]

\* SumKeys(key1, key2).
SumKeys(key1, key2) ==
    LET sum == KeyAdd(key1, key2)
    IN  IF sum.status # "ok" THEN [status |-> "abort", key |-> NoKey]
        ELSE [status |-> "ok", key |-> sum.key]

\* What a read past the end of the vector `ciphertext` may do: trap, or
\* yield whatever lies there.
OutOfBounds ==
    {[trap |-> TRUE,
      ct |-> [c0 |-> ZeroPoly, c1 |-> ZeroPoly, len |-> 2, power_of_s |-> 1,
              error |-> 0]],
     [trap |-> FALSE,
      ct |-> [c0 |-> ZeroPoly, c1 |-> ZeroPoly, len |-> 2, power_of_s |-> 1,
              error |-> 0]],
     [trap |-> FALSE,
      ct |-> [c0 |-> ZeroPoly, c1 |-> ZeroPoly, len |-> 3, power_of_s |-> 1,
              error |-> 0]],
     [trap |-> FALSE,
      ct |-> [c0 |-> ZeroPoly, c1 |-> ZeroPoly, len |-> 2, power_of_s |-> 0,
              error |-> 0]]}

RECURSIVE AggregateFrom(_, _, _, _)
\* The loop of Aggregate over j..chipertext_sum.size(); beyond is what
\* reading ciphertext[j] past its end does.
AggregateFrom(chipertext_sum, ciphertext, j, beyond) ==
    IF j > Len(chipertext_sum)
    THEN [status |-> "ok", result |-> << >>, oob |-> FALSE]
    ELSE IF j > Len(ciphertext) /\ beyond.trap
    THEN [status |-> "abort", result |-> << >>, oob |-> TRUE]
    ELSE LET tmp  == AddInPlaceFst(chipertext_sum[j],
                                   IF j <= Len(ciphertext) THEN ciphertext[j]
                                   ELSE beyond.ct)
             rest == AggregateFrom(chipertext_sum, ciphertext, j + 1, beyond)
         IN  IF tmp.status # "ok"
             THEN [status |-> "abort", result |-> << >>,
                   oob |-> j > Len(ciphertext)]
             ELSE [status |-> rest.status,
                   result |-> IF rest.status = "ok"
                              THEN << tmp.ct >> \o rest.result ELSE << >>,
                   oob |-> rest.oob \/ j > Len(ciphertext)]

RECURSIVE AggregateNewFrom(_, _, _, _)
\* A loop "result[j] = ciphertext[j]" in the place of Aggregate's.
AggregateNewFrom(chipertext_sum, ciphertext, j, beyond) ==
    IF j > Len(chipertext_sum) THEN << >>
    ELSE << IF j <= Len(ciphertext) THEN ciphertext[j] ELSE beyond.ct >>
         \o AggregateNewFrom(chipertext_sum, ciphertext, j + 1, beyond)

\* Aggregate that overwrites each element of the sum with the new one,
\* AddInPlaceFst and its checks left out.
AggregateOverwrites(chipertext_sum, ciphertext, beyond) ==
    IF Len(chipertext_sum) > Len(ciphertext) /\ beyond.trap
    THEN [status |-> "abort", result |-> << >>, oob |-> TRUE]
    ELSE [status |-> "ok",
          result |-> AggregateNewFrom(chipertext_sum, ciphertext, 1, beyond),
          oob |-> Len(chipertext_sum) > Len(ciphertext)]

\* Aggregate that never stores tmp into result[j]: the copy of
\* chipertext_sum comes back as it was.
AggregateResultUntouched(chipertext_sum, ciphertext, beyond) ==
    LET r == AggregateFrom(chipertext_sum, ciphertext, 1, beyond)
    IN  [r EXCEPT !.result = IF r.status = "ok" THEN chipertext_sum
                             ELSE << >>]

\* Aggregate whose loop stops one element early.
AggregateAllButLast(chipertext_sum, ciphertext, beyond) ==
    LET r == AggregateFrom(SubSeq(chipertext_sum, 1, Len(chipertext_sum) - 1),
                           ciphertext, 1, beyond)
    IN  [r EXCEPT !.result =
            IF r.status = "ok"
            THEN r.result \o SubSeq(chipertext_sum, Len(chipertext_sum),
                                    Len(chipertext_sum))
            ELSE << >>]

\* Aggregate(chipertext_sum, ciphertext).
Aggregate(chipertext_sum, ciphertext, beyond) ==
    AggregateFrom(chipertext_sum, ciphertext, 1, beyond)

(***************************************************************************)
(* SamplePlaintext.                                                        *)
(***************************************************************************)
\* std::mt19937 mt_rand(seed): the generator's state after seeding.
MtSeed(seed) == seed % (2 ^ MtBits + 1)

\* mt_rand(): the next state and the word it returns, a linear congruence
\* standing for the twister.
MtRand(state) ==
    LET next == (75 * state + 74) % (2 ^ MtBits + 1)
    IN  [state |-> next, rand |-> next % 2 ^ MtBits]

RECURSIVE SamplePlaintextFrom(_, _, _, _)
\* The loop of SamplePlaintext from coefficient i on: one word per
\* coefficient, reduced modulo t.
SamplePlaintextFrom(i, num_coeffs, t, state) ==
    IF i >= num_coeffs THEN << >>
    ELSE LET r == MtRand(state)
         IN  << r.rand % t >>
             \o SamplePlaintextFrom(i + 1, num_coeffs, t, r.state)

\* SamplePlaintext reducing modulo the plaintext modulus 2^log_t + 1 of the
\* scheme.
SamplePlaintextModT(num_coeffs, log_t) ==
    SamplePlaintextFrom(0, num_coeffs, PlaintextModulus(log_t), MtSeed(1))

\* SamplePlaintext(num_coeffs, log_t) for 0 <= log_t below the width of
\* Int: t = 1 << log_t, a generator of its own seeded with 1.  The local
\* `value` = 1 << (log_t - 5) is never read.
SamplePlaintext(num_coeffs, log_t) ==
    SamplePlaintextFrom(0, num_coeffs, 2 ^ log_t, MtSeed(1))

(***************************************************************************)
(* ChaChaPrng.  The object is [key, position_in_buffer, salt_counter,      *)
(* buffer]; a 64-bit output is kept as its 8 bytes in the order drawn.     *)
(***************************************************************************)
\* Bytes of Rand64's output.
kRand64Bytes == 8

\* Byte i of the ChaCha20 keystream under key and salt, a mixing function
\* standing for the cipher.
ChaChaKeystream(in_key, salt, i) ==
    (in_key * 89 + salt * 151 + i * (2 * in_key + 1) * 37 + salt * i * 13
     + i * i * in_key) % 256

\* Re-salting that counts the salt and rewinds but keeps the old buffer.
ChaChaPrngResaltKeepsBuffer(prng) ==
    [prng EXCEPT !.salt_counter = @ + 1, !.position_in_buffer = 0]

\* Re-salting: a new buffer derived from the key and the salt counter, the
\* counter incremented by one, the position back at the start.
ChaChaPrngResalt(prng) ==
    [prng EXCEPT
       !.buffer = [i \in 1..kChaChaOutputBytes |->
                     ChaChaKeystream(prng.key, prng.salt_counter, i)],
       !.salt_counter = @ + 1,
       !.position_in_buffer = 0]

\* ChaChaPrng::Create(in_key): the first buffer is derived at once.
ChaChaPrngCreate(in_key) ==
    ChaChaPrngResalt([key |-> in_key, position_in_buffer |-> 0,
                      salt_counter |-> 0,
                      buffer |-> [i \in 1..kChaChaOutputBytes |-> 0]])

\* Rand8(): re-salt when the buffer is exhausted, then hand out the next
\* byte.
ChaChaPrngRand8(prng) ==
    LET s == IF prng.position_in_buffer >= Len(prng.buffer)
             THEN ChaChaPrngResalt(prng) ELSE prng
    IN  [prng |-> [s EXCEPT !.position_in_buffer = @ + 1],
         val |-> s.buffer[s.position_in_buffer + 1]]

RECURSIVE ChaChaPrngRand64From(_, _, _)
\* The loop of Rand64() with n bytes still to draw.
ChaChaPrngRand64From(prng, n, bytes) ==
    IF n = 0 THEN [prng |-> prng, val |-> bytes]
    ELSE LET r == ChaChaPrngRand8(prng)
         IN  ChaChaPrngRand64From(r.prng, n - 1, Append(bytes, r.val))

\* Rand64(): 8 bytes drawn one after the other.
ChaChaPrngRand64(prng) == ChaChaPrngRand64From(prng, kRand64Bytes, << >>)

(***************************************************************************)
(* RelinearizationKey: key-switching matrices of 2 rows and `dimension`    *)
(* columns, one per power of the source key beyond those the target key    *)
(* shares with it.  A ciphertext is here a record of its components c, its *)
(* power_of_s and its error bound.                                         *)
(***************************************************************************)
PrngTypes == {"PRNG_TYPE_HKDF", "PRNG_TYPE_CHACHA"}

\* The stream of a PRNG of one type created from a seed: the two types
\* yield different streams from the same seed.
PrngOfType(prng_type, seed) ==
    [seed |-> IF prng_type = "PRNG_TYPE_HKDF" THEN seed ELSE seed + MaxSeed,
     pos |-> 0]

RECURSIVE SubstituteAt(_, _, _, _)
\* Coefficient k (from 0) of f(X^power) modulo X^N + 1: the terms
\* i = from..N-1.
SubstituteAt(f, power, k, from) ==
    IF from = N THEN 0
    ELSE LET e    == (from * power) % (2 * N)
             term == IF e = k THEN f[from + 1]
                     ELSE IF e = k + N THEN (q - f[from + 1]) % q
                     ELSE 0
         IN  (term + SubstituteAt(f, power, k, from + 1)) % q

\* Polynomial::Substitute: f(X) becomes f(X^power).
PolySubstitute(f, power) == [i \in 1..N |-> SubstituteAt(f, power, i - 1, 0)]

\* SymmetricRlweCiphertext::Substitute: every component is substituted and
\* the power of s multiplied, modulo 2 * N.
CiphertextSubstitute(ciphertext, power) ==
    [c |-> [i \in 1..Len(ciphertext.c) |->
              PolySubstitute(ciphertext.c[i], power)],
     power_of_s |-> (ciphertext.power_of_s * power) % (2 * N),
     error |-> ciphertext.error]

\* operator* of two ciphertexts of two components under the same power of
\* s: the three components of the tensor product.
CiphertextMul(x, y) ==
    [c |-> << PolyMul(x.c[1], y.c[1]),
              PolyAdd(PolyMul(x.c[1], y.c[2]), PolyMul(x.c[2], y.c[1])),
              PolyMul(x.c[2], y.c[2]) >>,
     power_of_s |-> x.power_of_s,
     error |-> x.error * y.error]

\* SymmetricRlweCiphertext::Component(index), index from 0.
Component(ciphertext, index) ==
    IF index < 0 \/ index >= Len(ciphertext.c)
    THEN [status |-> "InvalidArgument", poly |-> << >>]
    ELSE [status |-> "ok", poly |-> ciphertext.c[index + 1]]

\* HasIdenticalBaseKey: the target key is the source key itself.
HasIdenticalBaseKey(substitution_power) == substitution_power = 1

\* GadgetSize: the number of digits of a coefficient in base
\* 2^log_decomposition_modulus.
GadgetSize(log_decomposition_modulus, log_modulus) ==
    (log_modulus + log_decomposition_modulus - 1)
      \div log_decomposition_modulus

\* BaseDecompose: digit j of every coefficient, least significant first.
BaseDecompose(coeffs, log_decomposition_modulus, dimension) ==
    [j \in 1..dimension |->
       [i \in 1..N |->
          (coeffs[i] \div 2 ^ (log_decomposition_modulus * (j - 1)))
            % 2 ^ log_decomposition_modulus]]

\* SampleOrthogonalFromPrng: r drawn from the prng and r_top = -(r * s).
SampleOrthogonalFromPrng(k, prng) ==
    LET r == SamplePolynomialFromPrng(N, prng.seed, prng.pos)
    IN  [r_top |-> PolyNeg(PolyMul(r.coeffs, k.poly)), r |-> r.coeffs,
         prng |-> [prng EXCEPT !.pos = r.pos]]

RECURSIVE RelinearizationKeyPartColumns(_, _, _, _, _, _, _, _, _)
\* RelinearizationKeyPart::Create from column i on: key_to_i is
\* T^i * key_power (PowersOfT); the column is
\* (t * e + r_top + T^i * key_power, r) with r from prng and e from
\* prng_encryption.
RelinearizationKeyPartColumns(i, key_to_i, k, decomposition_modulus, dimension, prng, prng_encryption, row0, row1) ==
    IF i = dimension
    THEN [matrix |-> << row0, row1 >>, prng |-> prng,
          prng_encryption |-> prng_encryption]
    ELSE CHOOSE part \in
           { RelinearizationKeyPartColumns(
               i + 1, PolyScale(decomposition_modulus, key_to_i), k,
               decomposition_modulus, dimension, r.prng,
               [prng_encryption EXCEPT !.pos = error.pos],
               Append(row0,
                      PolyAdd(PolyAdd(PolyScale(PlaintextModulus(k.log_t),
                                                error.coeffs),
                                      r.r_top),
                              key_to_i)),
               Append(row1, r.r))
             : r \in {SampleOrthogonalFromPrng(k, prng)},
               error \in {SampleFromErrorDistribution(
                            N, k.variance, prng_encryption.seed,
                            prng_encryption.pos, q)} } : TRUE

\* RelinearizationKeyPart::Create.
RelinearizationKeyPartCreate(key_power, k, decomposition_modulus, dimension, prng, prng_encryption) ==
    RelinearizationKeyPartColumns(0, key_power, k, decomposition_modulus,
                                  dimension, prng, prng_encryption,
                                  << >>, << >>)

RECURSIVE RelinearizationKeyParts(_, _, _, _, _, _, _, _, _)
\* The loop of RelinearizationKey::Create from part i on: the power of the
\* base key is raised (except for i = 1) and a part created for it, all
\* parts drawing from the same two PRNGs in turn.
RelinearizationKeyParts(i, num_parts, key_power, key_base, k, decomposition_modulus, dimension, prng, prng_encryption) ==
    IF i >= num_parts THEN << >>
    ELSE CHOOSE parts \in
           { << part.matrix >>
               \o RelinearizationKeyParts(
                    i + 1, num_parts, power, key_base, k,
                    decomposition_modulus, dimension, part.prng,
                    part.prng_encryption)
             : power \in {IF i # 1 THEN PolyMul(key_power, key_base)
                          ELSE key_power},
               part \in {RelinearizationKeyPartCreate(
                           IF i # 1 THEN PolyMul(key_power, key_base)
                           ELSE key_power,
                           k, decomposition_modulus, dimension, prng,
                           prng_encryption)} } : TRUE

NoRelinearizationKey ==
    [dimension |-> 0, num_parts |-> 0, log_decomposition_modulus |-> 0,
     decomposition_modulus |-> 0, substitution_power |-> 0,
     relinearization_key |-> << >>, prng_seed |-> NoSeed,
     prng_type |-> "PRNG_TYPE_INVALID"]

\* RelinearizationKey::Create, with the two seeds GenerateSeed() returns.
RelinearizationKeyCreate(k, prng_type, num_parts, log_decomposition_modulus, substitution_power, prng_seed, prng_encryption_seed) ==
    IF num_parts < (IF HasIdenticalBaseKey(substitution_power) THEN 3 ELSE 2)
       \/ log_decomposition_modulus <= 0
       \/ log_decomposition_modulus > LogQ
       \/ prng_type \notin PrngTypes
    THEN [status |-> "InvalidArgument", key |-> NoRelinearizationKey]
    ELSE [status |-> "ok",
          key |->
            [dimension |-> GadgetSize(log_decomposition_modulus, LogQ),
             num_parts |-> num_parts,
             log_decomposition_modulus |-> log_decomposition_modulus,
             decomposition_modulus |->
               ImportInt(2 ^ log_decomposition_modulus, q),
             substitution_power |-> substitution_power,
             relinearization_key |->
               RelinearizationKeyParts(
                 IF HasIdenticalBaseKey(substitution_power) THEN 2 ELSE 1,
                 num_parts, PolySubstitute(k.poly, substitution_power),
                 PolySubstitute(k.poly, substitution_power), k,
                 ImportInt(2 ^ log_decomposition_modulus, q),
                 GadgetSize(log_decomposition_modulus, LogQ),
                 PrngOfType(prng_type, prng_seed),
                 PrngOfType(prng_type, prng_encryption_seed)),
             prng_seed |-> prng_seed,
             prng_type |-> prng_type]]

\* `1 << log_decomposition_modulus` in int: the power of two while it is
\* below the sign bit, the most negative int at the sign bit.  A shift by
\* the width or more is undefined: builds yield the shift by the count
\* modulo the width, or zero.
OneShiftedLeft(log_decomposition_modulus) ==
    LET Shifted(n) == IF n < IntWidthBits - 1 THEN 2 ^ n
                      ELSE 0 - 2 ^ (IntWidthBits - 1)
    IN  IF log_decomposition_modulus < IntWidthBits
        THEN {Shifted(log_decomposition_modulus)}
        ELSE {Shifted(log_decomposition_modulus % IntWidthBits), 0}

\* ErrorParams::B_relinearize with the value decomposition_modulus the shift
\* produced: (8 / sqrt(3)) * t * num_digits * sigma * dimension
\* * decomposition_modulus * num_components, cut to its integer part.
B_relinearize(num_components, log_decomposition_modulus, decomposition_modulus, error_params) ==
    (8 * ExportDoubleT(PlaintextModulus(error_params.log_t))
       * GadgetSize(log_decomposition_modulus, LogQ)
       * Sqrt(error_params.variance) * error_params.dimension
       * decomposition_modulus * num_components)
      \div Sqrt(3)

RECURSIVE MatrixMultiplyRow(_, _, _)
\* One row of MatrixMultiply from column i on: the sum of the products of
\* the digit polynomials with the entries of the row.
MatrixMultiplyRow(decomposed_coefficients, row, i) ==
    IF i > Len(row) THEN ZeroPoly
    ELSE PolyAdd(PolyMul(decomposed_coefficients[i], row[i]),
                 MatrixMultiplyRow(decomposed_coefficients, row, i + 1))

\* RelinearizationKeyPart::ApplyPartTo: the digits of the component times
\* the matrix.
ApplyPartTo(matrix, log_decomposition_modulus, ciphertext_part) ==
    CHOOSE result \in
      { << MatrixMultiplyRow(decomposed_coefficients, matrix[1], 1),
           MatrixMultiplyRow(decomposed_coefficients, matrix[2], 1) >>
        : decomposed_coefficients \in
            {BaseDecompose(ciphertext_part, log_decomposition_modulus,
                           Len(matrix[1]))} } : TRUE

RECURSIVE ApplyPartsFrom(_, _, _, _)
\* The loop of ApplyTo from key part i (from 0) on: part i is applied to
\* component i + first_key_index and the results are added up; a missing
\* component ends the call.
ApplyPartsFrom(rk, ciphertext, first_key_index, i) ==
    IF i >= Len(rk.relinearization_key)
    THEN [status |-> "ok", result |-> << ZeroPoly, ZeroPoly >>]
    ELSE IF Component(ciphertext, i + first_key_index).status # "ok"
    THEN [status |-> "InvalidArgument", result |-> << >>]
    ELSE CHOOSE sum \in
           { IF rest.status # "ok" THEN rest
             ELSE [status |-> "ok",
                   result |-> << PolyAdd(result_part[1], rest.result[1]),
                                 PolyAdd(result_part[2], rest.result[2]) >>]
             : result_part \in
                 {ApplyPartTo(rk.relinearization_key[i + 1],
                              rk.log_decomposition_modulus,
                              Component(ciphertext,
                                        i + first_key_index).poly)},
               rest \in {ApplyPartsFrom(rk, ciphertext, first_key_index,
                                        i + 1)} } : TRUE

\* ApplyTo without the comparison of the ciphertext's length with num_parts.
RelinearizationKeyApplyToAnyLength(rk, ciphertext, error_params, decomposition_modulus) ==
    LET first_key_index ==
          IF HasIdenticalBaseKey(rk.substitution_power) THEN 2 ELSE 1
        parts == ApplyPartsFrom(rk, ciphertext, first_key_index, 0)
    IN  IF parts.status # "ok"
        THEN [status |-> "InvalidArgument",
              message |-> "Index out of range.", ct |-> << >>]
        ELSE [status |-> "ok", message |-> "",
              ct |-> [c |-> << PolyAdd(parts.result[1], ciphertext.c[1]),
                               IF HasIdenticalBaseKey(rk.substitution_power)
                               THEN PolyAdd(parts.result[2], ciphertext.c[2])
                               ELSE parts.result[2] >>,
                      power_of_s |-> 1,
                      error |-> ciphertext.error
                                  + B_relinearize(
                                      Len(rk.relinearization_key),
                                      rk.log_decomposition_modulus,
                                      decomposition_modulus, error_params)]]

\* ApplyTo whose result keeps the power of s of its input.
RelinearizationKeyApplyToKeepsPower(rk, ciphertext, error_params, decomposition_modulus) ==
    LET r == RelinearizationKeyApplyToAnyLength(rk, ciphertext, error_params,
                                                decomposition_modulus)
    IN  IF Len(ciphertext.c) > rk.num_parts
        THEN [status |-> "InvalidArgument",
              message |->
                "RelinearizationKey not large enough for ciphertext.",
              ct |-> << >>]
        ELSE IF r.status # "ok" THEN r
        ELSE [r EXCEPT !.ct.power_of_s = ciphertext.power_of_s]

\* RelinearizationKey::ApplyTo, decomposition_modulus being the value the
\* shift inside B_relinearize produced.
RelinearizationKeyApplyTo(rk, ciphertext, error_params, decomposition_modulus) ==
    IF Len(ciphertext.c) > rk.num_parts
    THEN [status |-> "InvalidArgument",
          message |-> "RelinearizationKey not large enough for ciphertext.",
          ct |-> << >>]
    ELSE RelinearizationKeyApplyToAnyLength(rk, ciphertext, error_params,
                                            decomposition_modulus)

\* Bytes of one serialized coefficient.
CoefficientBytes == (LogQ + 7) \div 8

\* Polynomial::Serialize: the coefficients as bytes, least significant
\* first, one coefficient after the other.
PolySerialize(f) ==
    [num_coeffs |-> Len(f),
     coeffs |-> [n \in 1..(Len(f) * CoefficientBytes) |->
                   (f[(n - 1) \div CoefficientBytes + 1]
                      \div 256 ^ ((n - 1) % CoefficientBytes)) % 256]]

RECURSIVE BytesToInt(_, _, _)
\* The integer of the n bytes after position `from`.
BytesToInt(bytes, from, n) ==
    IF n = 0 THEN 0
    ELSE bytes[from + 1] + 256 * BytesToInt(bytes, from + 1, n - 1)

\* Polynomial::Deserialize: the coefficients read back and imported.
PolyDeserialize(serialized) ==
    [i \in 1..serialized.num_coeffs |->
       ImportInt(BytesToInt(serialized.coeffs, (i - 1) * CoefficientBytes,
                            CoefficientBytes), q)]

RECURSIVE FirstRows(_, _)
\* The first rows (RelinearizationKeyPart::Matrix) of the parts from part i
\* on, serialized one polynomial after the other.
FirstRows(relinearization_key, i) ==
    IF i > Len(relinearization_key) THEN << >>
    ELSE [j \in 1..Len(relinearization_key[i][1]) |->
            PolySerialize(relinearization_key[i][1][j])]
           \o FirstRows(relinearization_key, i + 1)

\* RelinearizationKey::Serialize: the parameters, the seed and type of the
\* PRNG of the second rows, and the first row of every part.
RelinearizationKeySerialize(rk) ==
    [log_decomposition_modulus |-> rk.log_decomposition_modulus,
     num_parts |-> rk.num_parts,
     prng_seed |-> rk.prng_seed,
     prng_type |-> rk.prng_type,
     power_of_s |-> rk.substitution_power,
     c |-> FirstRows(rk.relinearization_key, 1)]

RECURSIVE RelinearizationKeyPartDeserializeSameDraw(_, _, _, _, _)
\* RelinearizationKeyPart::Deserialize that takes every second-row entry
\* from the same place of the PRNG.
RelinearizationKeyPartDeserializeSameDraw(i, polynomials, prng, row0, row1) ==
    IF i > Len(polynomials)
    THEN [matrix |-> << row0, row1 >>, prng |-> prng]
    ELSE RelinearizationKeyPartDeserializeSameDraw(
           i + 1, polynomials, prng,
           Append(row0, PolyDeserialize(polynomials[i])),
           Append(row1,
                  SamplePolynomialFromPrng(polynomials[i].num_coeffs,
                                           prng.seed, prng.pos).coeffs))

RECURSIVE RelinearizationKeyPartDeserialize(_, _, _, _, _)
\* RelinearizationKeyPart::Deserialize from column i on: the first-row
\* entry is read from the serialized polynomial and the second-row entry
\* drawn from the prng.
RelinearizationKeyPartDeserialize(i, polynomials, prng, row0, row1) ==
    IF i > Len(polynomials)
    THEN [matrix |-> << row0, row1 >>, prng |-> prng]
    ELSE CHOOSE part \in
           { RelinearizationKeyPartDeserialize(
               i + 1, polynomials, [prng EXCEPT !.pos = sample.pos],
               Append(row0, PolyDeserialize(polynomials[i])),
               Append(row1, sample.coeffs))
             : sample \in
                 {SamplePolynomialFromPrng(polynomials[i].num_coeffs,
                                           prng.seed, prng.pos)} } : TRUE

RECURSIVE DeserializeParts(_, _, _, _, _)
\* The loop of RelinearizationKey::Deserialize from part i (from 0) on:
\* each chunk of polynomials_per_key_part polynomials becomes a part, all
\* parts drawing from the same PRNG in turn.
DeserializeParts(i, expected_num_key_parts, polynomials_per_key_part, c, prng) ==
    IF i >= expected_num_key_parts THEN << >>
    ELSE CHOOSE parts \in
           { << deserialized.matrix >>
               \o DeserializeParts(i + 1, expected_num_key_parts,
                                   polynomials_per_key_part, c,
                                   deserialized.prng)
             : deserialized \in
                 {RelinearizationKeyPartDeserialize(
                    1,
                    SubSeq(c, i * polynomials_per_key_part + 1,
                           (i + 1) * polynomials_per_key_part),
                    prng, << >>, << >>)} } : TRUE

\* RelinearizationKey::Deserialize.
RelinearizationKeyDeserialize(serialized) ==
    LET first_key_index ==
          IF HasIdenticalBaseKey(serialized.power_of_s) THEN 2 ELSE 1
        expected_num_key_parts == serialized.num_parts - first_key_index
    IN  IF serialized.num_parts <= first_key_index
           \/ Len(serialized.c) % expected_num_key_parts # 0
           \/ serialized.log_decomposition_modulus <= 0
           \/ serialized.log_decomposition_modulus > LogQ
           \/ Len(serialized.c) \div expected_num_key_parts
                # GadgetSize(serialized.log_decomposition_modulus, LogQ)
           \/ serialized.prng_type \notin PrngTypes
        THEN [status |-> "InvalidArgument", key |-> NoRelinearizationKey]
        ELSE [status |-> "ok",
              key |->
                [dimension |-> Len(serialized.c) \div expected_num_key_parts,
                 num_parts |-> serialized.num_parts,
                 log_decomposition_modulus |->
                   serialized.log_decomposition_modulus,
                 decomposition_modulus |->
                   ImportInt(2 ^ serialized.log_decomposition_modulus, q),
                 substitution_power |-> serialized.power_of_s,
                 relinearization_key |->
                   DeserializeParts(
                     0, expected_num_key_parts,
                     Len(serialized.c) \div expected_num_key_parts,
                     serialized.c,
                     PrngOfType(serialized.prng_type,
                                serialized.prng_seed)),
                 prng_seed |-> serialized.prng_seed,
                 prng_type |-> serialized.prng_type]]

(***************************************************************************)
(* DiscreteGaussianSampler: a base sampler holds the table of its Gaussian *)
(* parameter, and a sample with zero iterations is one draw from that      *)
(* table.  Standard deviations are in tenths.                              *)
(***************************************************************************)
\* The function-local static `sampler` before the first call reaches it.
NoSampler == [created |-> FALSE, s_base |-> 0]

\* DiscreteGaussianSampler::Create(stddev).
DGSamplerCreate(stddev) == [created |-> TRUE, s_base |-> stddev]

\* sampler->SampleWithIterations(stddev, 0, prng) on the byte the prng
\* yields: the magnitude is looked up in the table of the base parameter
\* with the low bits and takes its sign from the top bit.
SampleWithIterations(sampler, stddev, byte) ==
    LET magnitude == (sampler.s_base * (byte % 16)) \div 40
    IN  IF byte >= 128 THEN 0 - magnitude ELSE magnitude

\* SampleFromDiscreteGaussian as one call of a process whose static sampler
\* is `sampler`: the function-local static is initialised by the first call
\* that reaches its declaration and kept by every later one.
SampleFromDiscreteGaussianCall(sampler, num_coeffs, stddev, seed, pos, modulus) ==
    LET used == IF stddev < 0 \/ sampler.created THEN sampler
                ELSE DGSamplerCreate(stddev)
        r    == SampleFromDiscreteGaussian(
                  num_coeffs, stddev,
                  [i \in 1..num_coeffs |->
                     SampleWithIterations(used, stddev,
                                          Rand8(seed, pos + i - 1))],
                  modulus)
    IN  [status |-> r.status, coeffs |-> r.coeffs, sampler |-> used]

(***************************************************************************)
(* The state.                                                              *)
(*   ndebug   the build compiles assert() away                             *)
(*   alive    the process has not been aborted                             *)
(*   eng      the engines (RlweSecAgg objects); seed_arg is the seed the   *)
(*            constructor was given and prng_seed the seed its PRNG was    *)
(*            created from, both kept for reference                        *)
(*   key      the key the caller holds                                     *)
(*   ct       per engine, the list the last Encrypt returned, with the key *)
(*            and plaintext that went into it                              *)
(*   keySum, vecSum, nKeys   the running key sum, the running sum of       *)
(*            ConvertKey vectors, and the number of keys folded in         *)
(*   ctSum    the running aggregate, the sum of its plaintexts, the number *)
(*            of lists folded in                                           *)
(*   out      what the last call returned                                  *)
(*   pc       the caller's position in its protocol                        *)
(***************************************************************************)
VARIABLES ndebug, alive, eng, key, ct, keySum, vecSum, nKeys, ctSum, out, pc

vars == <<ndebug, alive, eng, key, ct, keySum, vecSum, nKeys, ctSum, out, pc>>

Engines == {1, 2}

NoEngine ==
    [built |-> FALSE, input_size |-> 0, log_t |-> 0, seed |-> NoSeed,
     as |-> << >>, num_split |-> 0, seed_arg |-> NoSeed,
     prng_seed |-> NoSeed]

NoCiphertexts ==
    [have |-> FALSE, cts |-> << >>, key |-> << >>, pt |-> << >>,
     prng_seed |-> NoSeed]

NoSum == [cts |-> << >>, pt |-> << >>, n |-> 0]

\* A call, the length of the list it was given, and what it returned.
Outcome(op, len, status, val) ==
    [op |-> op, len |-> len, status |-> status, val |-> val]

\* The values of input_size and log_t the callers pass.
InputSizes == {0, 1, N, N + 1, MaxSplit * N}

LogTs == {0, kTestLogT, kTestLogT + 2, kTestLogT + 3, LogQ}

\* Plaintexts of a given length with coefficients in [0, 2^log_t): all
\* zero, all 2^log_t - 1, and a mixed one.
Plaintext(kind, len, log_t) ==
    [i \in 1..len |-> IF kind = 1 THEN 0
                      ELSE IF kind = 2 THEN 2 ^ log_t - 1
                      ELSE (5 * i + 3) % (2 ^ log_t)]

PlaintextKinds == 1..3

Init ==
    /\ ndebug \in BOOLEAN
    /\ alive = TRUE
    /\ eng = [e \in Engines |-> NoEngine]
    /\ key = NoKey
    /\ ct = [e \in Engines |-> NoCiphertexts]
    /\ keySum = NoKey
    /\ vecSum = << >>
    /\ nKeys = 0
    /\ ctSum = NoSum
    /\ out = Outcome("none", 0, "ok", << >>)
    /\ pc = "start"

\* A failed assert(), or value() taken of a failed StatusOr: the process
\* ends and the call returns nothing.
Crash(op, len) ==
    /\ alive' = FALSE
    /\ out' = Outcome(op, len, "abort", << >>)
    /\ UNCHANGED <<ndebug, eng, key, ct, keySum, vecSum, nKeys, ctSum>>

\* RlweSecAgg(input_size, log_t, seed), stddev left at 4.5.
Construct(e, input_size, log_t, seed) ==
    /\ alive
    /\ ~eng[e].built
    /\ \E fresh \in Seeds :
         LET g == GetPrg(seed, fresh, eng[e].seed)
             num_split == input_size \div N
         IN  IF ErrorParamsCreate(log_t, variance, LogQ) # "ok"
                \/ ErrorParamsCreate(9, variance, BitLength(p)) # "ok"
             THEN Crash("Construct", input_size)
             ELSE /\ eng' = [eng EXCEPT ![e] =
                               [built |-> TRUE, input_size |-> input_size,
                                log_t |-> log_t, seed |-> g.seed,
                                as |-> SampleAs(num_split, g.prng_seed, 0),
                                num_split |-> num_split,
                                seed_arg |-> seed,
                                prng_seed |-> g.prng_seed]]
                  /\ out' = Outcome("Construct", input_size, "ok", << >>)
                  /\ UNCHANGED <<ndebug, alive, key, ct, keySum, vecSum,
                                 nKeys, ctSum>>

\* GetSeed().
GetSeed(e) ==
    /\ alive
    /\ eng[e].built
    /\ out' = Outcome("GetSeed", 0, "ok", << eng[e].seed >>)
    /\ UNCHANGED <<ndebug, alive, eng, key, ct, keySum, vecSum, nKeys, ctSum>>

\* SampleKey(); the seeds GenerateSeed() may return are those of S.
SampleKeyFrom(e, S) ==
    /\ alive
    /\ eng[e].built
    /\ \E fresh \in S :
         LET g == GetPrg(NoSeed, fresh, eng[e].seed)
             k == KeySample(variance, eng[e].log_t, g.prng_seed)
         IN  IF k.status # "ok" THEN Crash("SampleKey", 0)
             ELSE /\ eng' = [eng EXCEPT ![e].seed = g.seed]
                  /\ key' = k.key
                  /\ out' = Outcome("SampleKey", 0, "ok", k.key.poly)
                  /\ UNCHANGED <<ndebug, alive, ct, keySum, vecSum, nKeys,
                                 ctSum>>

SampleKey(e) == SampleKeyFrom(e, Seeds)

\* What Encrypt(key, plaintext) computes once the length check is passed:
\* the PRNG from GetPrg(), the chunks, their ciphertexts.  With
\* _num_split = 0 splitVector divides by zero: the call either traps or
\* goes on with no chunk at all.
EncryptResult(e, plaintext, fresh, trap) ==
    IF eng[e].num_split = 0
    THEN [status |-> IF trap THEN "abort" ELSE "ok", cts |-> << >>]
    ELSE EncryptChunks(key, splitVector(plaintext, eng[e].num_split),
                       eng[e].as, ErrorParams(eng[e].log_t, variance), 1,
                       GetPrg(NoSeed, fresh, eng[e].seed).prng_seed, 0)

\* Encrypt(key, plaintext); the seeds GenerateSeed() may return are those
\* of S.
EncryptFrom(e, plaintext, S) ==
    /\ alive
    /\ eng[e].built
    /\ key # NoKey
    /\ \E fresh \in S,
          trap \in IF eng[e].num_split = 0 THEN BOOLEAN ELSE {FALSE} :
         \E g \in {GetPrg(NoSeed, fresh, eng[e].seed)},
            r \in {EncryptResult(e, plaintext, fresh, trap)} :
             IF ~ndebug /\ Len(plaintext) # eng[e].input_size
             THEN Crash("Encrypt", Len(plaintext))
             ELSE IF r.status # "ok" THEN Crash("Encrypt", Len(plaintext))
             ELSE /\ eng' = [eng EXCEPT ![e].seed = g.seed]
                  /\ ct' = [ct EXCEPT ![e] =
                              [have |-> TRUE, cts |-> r.cts, key |-> key.poly,
                               pt |-> plaintext, prng_seed |-> g.prng_seed]]
                  /\ out' = Outcome("Encrypt", Len(plaintext), "ok",
                                   << Len(r.cts) >>)
                  /\ UNCHANGED <<ndebug, alive, key, keySum, vecSum, nKeys,
                                 ctSum>>

Encrypt(e, plaintext) == EncryptFrom(e, plaintext, Seeds)

\* Decrypt(key, chipertexts) on a list of at least _num_split ciphertexts.
DecryptWith(e, k, chipertexts) ==
    /\ alive
    /\ eng[e].built
    /\ k # NoKey
    /\ Len(chipertexts) >= eng[e].num_split
    /\ out' = Outcome("Decrypt", Len(chipertexts), "ok",
                      DecryptChunks(k, chipertexts, 1, eng[e].num_split))
    /\ UNCHANGED <<ndebug, alive, eng, key, ct, keySum, vecSum, nKeys, ctSum>>

Decrypt(e) == ct[e].have /\ DecryptWith(e, key, ct[e].cts)

(***************************************************************************)
(* One engine and its caller.                                              *)
(***************************************************************************)
EncryptAny(e) ==
    \E len \in {eng[e].input_size - 1, eng[e].input_size,
                eng[e].input_size + 1} \cap Nat :
        \E kind \in IF len = eng[e].input_size THEN PlaintextKinds ELSE {1} :
            Encrypt(e, Plaintext(kind, len, eng[e].log_t))

ConstructAny(e) ==
    \E input_size \in InputSizes, log_t \in LogTs, seed \in {NoSeed, 1} :
        Construct(e, input_size, log_t, seed)

CallConstruct == ConstructAny(1) /\ UNCHANGED pc

CallGetSeed == GetSeed(1) /\ UNCHANGED pc

CallSampleKey == SampleKey(1) /\ UNCHANGED pc

CallEncrypt == EncryptAny(1) /\ UNCHANGED pc

CallDecrypt == Decrypt(1) /\ UNCHANGED pc

Next ==
    \/ CallConstruct
    \/ CallGetSeed
    \/ CallSampleKey
    \/ CallEncrypt
    \/ CallDecrypt

Spec == Init /\ [][Next]_vars

(***************************************************************************)
(* Properties of one engine.                                               *)
(***************************************************************************)
\* The list decrypted last is the one Encrypt returned for a plaintext of
\* length input_size under the key the caller still holds.
RoundTripDone ==
    /\ out.op = "Decrypt"
    /\ ct[1].have
    /\ ct[1].key = key.poly
    /\ Len(ct[1].pt) = eng[1].input_size

\* The largest value of t * e + m stays within the centered range of q.
NoiseFits(log_t) ==
    PlaintextModulus(log_t) * 2 * variance + 2 ^ log_t - 1 <= q \div 2

C6_GetSeedReturnsSeedOfAs ==
    out.op = "GetSeed"
        => /\ out.val = << eng[1].prng_seed >>
           /\ SampleAs(eng[1].num_split, out.val[1], 0) = eng[1].as

\* C7: encrypt with a plaintext of another length than input_size returns
\* InvalidArgument to the caller and no ciphertext.
C7_WrongLengthIsInvalidArgument ==
    (out.op = "Encrypt" /\ out.len # eng[1].input_size)
        => (alive /\ out.status = "InvalidArgument")

\* C8: no engine exists whose input_size is not a multiple of N.
C8_InputSizeIsMultipleOfN ==
    \A e \in Engines : eng[e].built => eng[e].input_size % N = 0

\* c is an encryption of the N coefficients m under the key polynomial s
\* with a as randomness: c1 = -a, and c0 - a * s is m plus t times an
\* error the sampler can draw.
IsEncryptionOf(c, s, m, a, log_t) ==
    /\ Len(m) = N
    /\ c.c1 = PolyNeg(a)
    /\ LET d == PolyAdd(c.c0, PolyMul(c.c1, s))
       IN  \A n \in 1..N :
              \E e \in (0 - 2 * variance)..(2 * variance) :
                 d[n] = (m[n] + PlaintextModulus(log_t) * e) % q

\* C13: Encrypt on a plaintext of input_size coefficients returns exactly
\* K = input_size / N ciphertexts, the i-th an encryption of coefficients
\* (i-1)*N+1..i*N of the plaintext with a_i: no coefficient is dropped,
\* repeated or moved.
C13_EncryptChunksInOrder ==
    (out.op = "Encrypt" /\ out.len = eng[1].input_size)
        => /\ out.status = "ok"
           /\ Len(ct[1].cts) * N = eng[1].input_size
           /\ \A i \in 1..Len(ct[1].cts) :
                IsEncryptionOf(ct[1].cts[i], ct[1].key,
                               SubSeq(ct[1].pt, (i - 1) * N + 1, i * N),
                               eng[1].as[i], eng[1].log_t)

(***************************************************************************)
(* Two engines of the same input_size and log_t, one key, one plaintext    *)
(* encrypted on both.                                                      *)
(***************************************************************************)
TwinConstructFirst ==
    /\ \E input_size \in {N, MaxSplit * N},
          log_t \in {kTestLogT, kTestLogT + 2},
          seed \in {NoSeed} \cup Seeds :
           Construct(1, input_size, log_t, seed)
    /\ UNCHANGED pc

TwinConstructSecond ==
    /\ eng[1].built
    /\ \E seed \in {NoSeed} \cup Seeds :
           Construct(2, eng[1].input_size, eng[1].log_t, seed)
    /\ UNCHANGED pc

TwinSampleKey ==
    /\ eng[2].built
    /\ key = NoKey
    /\ \E e \in Engines : SampleKey(e)
    /\ UNCHANGED pc

TwinEncryptFirst ==
    /\ ~ct[1].have
    /\ \E kind \in PlaintextKinds :
           Encrypt(1, Plaintext(kind, eng[1].input_size, eng[1].log_t))
    /\ UNCHANGED pc

TwinEncryptSecond ==
    /\ ct[1].have
    /\ ~ct[2].have
    /\ Encrypt(2, ct[1].pt)
    /\ UNCHANGED pc

TwinNext ==
    \/ TwinConstructFirst
    \/ TwinConstructSecond
    \/ TwinSampleKey
    \/ TwinEncryptFirst
    \/ TwinEncryptSecond

SpecTwin == Init /\ [][TwinNext]_vars

\* Both engines were constructed with the same supplied seed.
SameExplicitSeed ==
    /\ eng[1].built /\ eng[2].built
    /\ eng[1].seed_arg # NoSeed
    /\ eng[1].seed_arg = eng[2].seed_arg
    /\ eng[1].input_size = eng[2].input_size
    /\ eng[1].log_t = eng[2].log_t

\* Both engines have encrypted the same plaintext under the same key.
SameEncryption ==
    /\ ct[1].have /\ ct[2].have
    /\ ct[1].key = ct[2].key
    /\ ct[1].pt = ct[2].pt

C5_SameSeedSameAs ==
    SameExplicitSeed
        => /\ Len(eng[1].as) = eng[1].input_size \div N
           /\ eng[1].as = eng[2].as

\* C5 witness: two engines of two chunks built from the same seed, with
\* two different polynomials each.
C5_Witness ==
    /\ SameExplicitSeed
    /\ Len(eng[2].as) >= 2
    /\ eng[2].as[1] # eng[2].as[2]
    /\ eng[1].as = eng[2].as

(***************************************************************************)
(* Secure aggregation on one engine, as RlweSecAggTest.Add runs it: each   *)
(* client samples a key and encrypts its plaintext; the ciphertext list is *)
(* folded into the aggregate and the key into the key sum; the holder of   *)
(* the key sum decrypts the aggregate.                                     *)
(***************************************************************************)
AggConstruct ==
    /\ pc = "start"
    /\ Construct(1, MaxSplit * N, kTestLogT, NoSeed)
    /\ pc' = "idle"

AggSampleKey ==
    /\ pc = "idle"
    /\ ctSum.n < MaxClients
    /\ SampleKeyFrom(1, KeySeeds)
    /\ pc' = "keyed"

AggEncrypt ==
    /\ pc = "keyed"
    /\ \E kind \in {2, 3} :
           EncryptFrom(1, Plaintext(kind, eng[1].input_size, eng[1].log_t),
                       KeySeeds)
    /\ pc' = "encrypted"

\* The first client's list and key start the sums.
AggFirst ==
    /\ pc = "encrypted"
    /\ alive
    /\ ctSum.n = 0
    /\ ctSum' = [cts |-> ct[1].cts, pt |-> ct[1].pt, n |-> 1]
    /\ keySum' = key
    /\ nKeys' = 1
    /\ out' = Outcome("none", 0, "ok", << >>)
    /\ pc' = "idle"
    /\ UNCHANGED <<ndebug, alive, eng, key, ct, vecSum>>

\* chipertext_sum = Aggregate(chipertext_sum, ciphertext).
AggAggregate ==
    /\ pc = "encrypted"
    /\ alive
    /\ ctSum.n >= 1
    /\ \E beyond \in OutOfBounds :
        \E r \in {Aggregate(ctSum.cts, ct[1].cts, beyond)} :
          IF r.status # "ok" THEN Crash("Aggregate", Len(ct[1].cts)) /\ pc' = pc
          ELSE /\ ctSum' = [cts |-> r.result,
                            pt |-> [i \in 1..Len(ctSum.pt) |->
                                       ctSum.pt[i] + ct[1].pt[i]],
                            n |-> ctSum.n + 1]
               /\ out' = Outcome("Aggregate", Len(ct[1].cts), "ok",
                                 [sum |-> ctSum.cts, new |-> ct[1].cts,
                                  result |-> r.result, oob |-> r.oob])
               /\ pc' = "summed"
               /\ UNCHANGED <<ndebug, alive, eng, key, ct, keySum, vecSum,
                              nKeys>>

\* Aggregate called with one of the two lists a chunk short; the caller
\* keeps its aggregate.
AggAggregateShort ==
    /\ pc = "encrypted"
    /\ alive
    /\ ctSum.n >= 1
    /\ \E short \in {"sum", "new"}, beyond \in OutOfBounds :
         \E sum \in {IF short = "sum"
                     THEN SubSeq(ctSum.cts, 1, Len(ctSum.cts) - 1)
                     ELSE ctSum.cts},
            new \in {IF short = "new"
                     THEN SubSeq(ct[1].cts, 1, Len(ct[1].cts) - 1)
                     ELSE ct[1].cts} :
           \E r \in {Aggregate(sum, new, beyond)} :
              /\ alive' = (r.status = "ok")
              /\ out' = Outcome("Aggregate", Len(new),
                                IF r.status = "ok" THEN "ok" ELSE "abort",
                                [sum |-> sum, new |-> new,
                                 result |-> r.result, oob |-> r.oob])
              /\ UNCHANGED <<ndebug, eng, key, ct, keySum, vecSum, nKeys,
                             ctSum, pc>>

\* key_sum = SumKeys(key_sum, key).
AggSumKeys ==
    /\ pc = "summed"
    /\ alive
    /\ \E r \in {SumKeys(keySum, key)} :
          IF r.status # "ok" THEN Crash("SumKeys", 0) /\ pc' = pc
          ELSE /\ keySum' = r.key
               /\ nKeys' = nKeys + 1
               /\ out' = Outcome("SumKeys", 0, "ok", r.key.poly)
               /\ pc' = "idle"
               /\ UNCHANGED <<ndebug, alive, eng, key, ct, vecSum, ctSum>>

\* Decrypt(key_sum, chipertext_sum).
AggDecrypt ==
    /\ pc = "idle"
    /\ ctSum.n >= 1
    /\ DecryptWith(1, keySum, ctSum.cts)
    /\ UNCHANGED pc

AggNext ==
    \/ AggConstruct
    \/ AggSampleKey
    \/ AggEncrypt
    \/ AggFirst
    \/ AggAggregate
    \/ AggAggregateShort
    \/ AggSumKeys
    \/ AggDecrypt

SpecAgg == Init /\ [][AggNext]_vars

\* The sum of the clients' plaintexts, reduced modulo 2^log_t + 1.
PlaintextSum ==
    [i \in 1..Len(ctSum.pt) |-> ctSum.pt[i] % PlaintextModulus(eng[1].log_t)]

C9_LengthMismatchIsRejected ==
    (out.op = "Aggregate" /\ Len(out.val.sum) # Len(out.val.new))
        => /\ alive
           /\ out.status = "InvalidArgument"
           /\ out.val.result = << >>
           /\ ~out.val.oob

\* Aggregate has returned for two lists of the same length.
AggregatedEqualLengths ==
    /\ out.op = "Aggregate"
    /\ out.status = "ok"
    /\ Len(out.val.sum) = Len(out.val.new)

C11_ErrorBoundIsSumOfFresh ==
    /\ (ct[1].have /\ alive)
         => \A j \in 1..Len(ct[1].cts) :
               ct[1].cts[j].error = B_encryption(eng[1].log_t, variance, N)
    /\ \A j \in 1..Len(ctSum.cts) :
         ctSum.cts[j].error
           = ctSum.n * B_encryption(eng[1].log_t, variance, N)

\* C11 witness: MaxClients fresh lists of MaxSplit ciphertexts each have
\* been aggregated, and every element carries MaxClients times the bound.
C11_Witness ==
    /\ out.op = "Aggregate" /\ out.status = "ok"
    /\ ctSum.n = MaxClients
    /\ Len(ctSum.cts) = MaxSplit
    /\ \A j \in 1..Len(ctSum.cts) :
         /\ out.val.new[j].error = B_encryption(eng[1].log_t, variance, N)
         /\ ctSum.cts[j].error
              = MaxClients * B_encryption(eng[1].log_t, variance, N)

\* Every ciphertext of the list cts has two components and power_of_s = 1.
FreshShape(cts) ==
    \A j \in 1..Len(cts) : cts[j].len = 2 /\ cts[j].power_of_s = 1

\* C12: every ciphertext that Encrypt or Aggregate has returned, after any
\* sequence of such calls, has exactly 2 components and power_of_s = 1.
C12_TwoComponentsPowerOne ==
    /\ FreshShape(ct[1].cts)
    /\ FreshShape(ctSum.cts)
    /\ (out.op = "Aggregate" /\ out.status = "ok")
         => FreshShape(out.val.result)

\* C12 witness: an aggregate of two lists or more, and, from it, a call of
\* Aggregate that read past the end of its second list and returned: all
\* of two components and power_of_s = 1.
C12_Witness ==
    /\ ctSum.n >= 2
    /\ out.op = "Aggregate" /\ out.status = "ok"
    /\ out.val.oob
    /\ Len(out.val.result) = MaxSplit
    /\ FreshShape(out.val.result)
    /\ FreshShape(ctSum.cts)

(***************************************************************************)
(* Key aggregation through the key channel, as RlweSecAggTest.CanSumKey    *)
(* runs it: each key is converted to a vector modulo p and added to the    *)
(* running vector, and added to the running key with key Add; CreateKey    *)
(* turns the running vector back into a key.                               *)
(***************************************************************************)
KeysConstruct ==
    /\ pc = "start"
    /\ Construct(1, N, kTestLogT, 1)
    /\ pc' = "idle"

KeysSampleKey ==
    /\ pc = "idle"
    /\ nKeys < MaxKeys
    /\ SampleKeyFrom(1, KeySeeds)
    /\ pc' = "keyed"

\* vector_tmp_key = ConvertKey(tmp_key), added to vector_key.
KeysConvertKey ==
    /\ pc = "keyed"
    /\ alive
    /\ \E v \in {ConvertKey(key)} :
          /\ vecSum' = IF nKeys = 0 THEN v
                       ELSE [i \in 1..Len(v) |-> vecSum[i] + v[i]]
          /\ out' = Outcome("ConvertKey", 0, "ok", v)
    /\ pc' = "converted"
    /\ UNCHANGED <<ndebug, alive, eng, key, ct, keySum, nKeys, ctSum>>

\* key = key.Add(tmp_key).
KeysSumKeys ==
    /\ pc = "converted"
    /\ alive
    /\ \E r \in {IF nKeys = 0 THEN [status |-> "ok", key |-> key]
                 ELSE SumKeys(keySum, key)} :
          IF r.status # "ok" THEN Crash("SumKeys", 0) /\ pc' = pc
          ELSE /\ keySum' = r.key
               /\ nKeys' = nKeys + 1
               /\ out' = Outcome("SumKeys", 0, "ok", r.key.poly)
               /\ pc' = "idle"
               /\ UNCHANGED <<ndebug, alive, eng, key, ct, vecSum, ctSum>>

\* key_sum = CreateKey(vector_key).
KeysCreateKey ==
    /\ pc = "idle"
    /\ alive
    /\ nKeys >= 1
    /\ \E r \in {CreateKey(vecSum, eng[1].log_t)} :
          IF r.status # "ok" THEN Crash("CreateKey", Len(vecSum)) /\ pc' = pc
          ELSE /\ out' = Outcome("CreateKey", Len(vecSum), "ok", r.key.poly)
               /\ UNCHANGED <<ndebug, alive, eng, key, ct, keySum, vecSum,
                              nKeys, ctSum, pc>>

KeysNext ==
    \/ KeysConstruct
    \/ KeysSampleKey
    \/ KeysConvertKey
    \/ KeysSumKeys
    \/ KeysCreateKey

SpecKeys == Init /\ [][KeysNext]_vars

KeyCoefficients ==
    {0, 1, 2 * variance, 4 * variance, p \div 2 - 1, p \div 2,
     p \div 2 + 1, p \div 2 + 2, p - 4 * variance, p - 2 * variance,
     p - 1}

ConvertConstruct ==
    /\ pc = "start"
    /\ Construct(1, N, kTestLogT, 1)
    /\ pc' = "idle"

\* key = CreateKey(v) for a vector v of N coefficients in [0, p).
ConvertCreateKey ==
    /\ pc = "idle"
    /\ alive
    /\ \E v \in [1..N -> KeyCoefficients] :
         \E r \in {CreateKey(v, eng[1].log_t)} :
          IF r.status # "ok" THEN Crash("CreateKey", Len(v)) /\ pc' = pc
          ELSE /\ key' = r.key
               /\ vecSum' = v
               /\ out' = Outcome("CreateKey", Len(v), "ok", r.key.poly)
               /\ pc' = "created"
               /\ UNCHANGED <<ndebug, alive, eng, ct, keySum, nKeys, ctSum>>

\* ConvertKey(key) on the key just created.
ConvertConvertKey ==
    /\ pc = "created"
    /\ alive
    /\ out' = Outcome("ConvertKey", Len(key.poly), "ok", ConvertKey(key))
    /\ pc' = "idle"
    /\ UNCHANGED <<ndebug, alive, eng, key, ct, keySum, vecSum, nKeys, ctSum>>

ConvertNext ==
    \/ ConvertConstruct
    \/ ConvertCreateKey
    \/ ConvertConvertKey

SpecConvert == Init /\ [][ConvertNext]_vars

\* C14: ConvertKey(CreateKey(v)) = v for every vector v of N coefficients
\* in [0, p).
C14_ConvertKeyInvertsCreateKey ==
    (out.op = "ConvertKey" /\ pc = "idle") => out.val = vecSum

\* C14 witness: a vector with one coefficient above p / 2, lifted to the
\* upper half of [0, q), and one at most p / 2, has come back unchanged.
C14_Witness ==
    /\ out.op = "ConvertKey" /\ pc = "idle"
    /\ vecSum[1] = p - 1 /\ key.poly[1] = q - 1
    /\ vecSum[2] = p \div 2 /\ key.poly[2] = p \div 2
    /\ out.val = vecSum

(***************************************************************************)
(* Calls of the static SamplePlaintext, one after another.                 *)
(***************************************************************************)
\* The values of log_t tried: 0, both sides of 5, the tests' 11, the width
\* of a generator word and beyond it.
PlainLogTs == {0, 1, 4, 5, kTestLogT, MtBits, MtBits + 4}

\* plaintext = SamplePlaintext(num_coeffs, log_t); the caller keeps the
\* arguments and result of the call before.
PlainSamplePlaintext ==
    /\ alive
    /\ \E num_coeffs \in 0..MaxCoeffs, log_t \in PlainLogTs :
         out' = Outcome("SamplePlaintext", num_coeffs, "ok",
                        [log_t |-> log_t,
                         plaintext |-> SamplePlaintext(num_coeffs, log_t),
                         before |->
                            IF out.op = "SamplePlaintext"
                            THEN [len |-> out.len, log_t |-> out.val.log_t,
                                  plaintext |-> out.val.plaintext]
                            ELSE [len |-> 0, log_t |-> 0,
                                  plaintext |-> << >>]])
    /\ UNCHANGED <<ndebug, alive, eng, key, ct, keySum, vecSum, nKeys, ctSum,
                   pc>>

PlainNext == PlainSamplePlaintext

SpecPlain == Init /\ [][PlainNext]_vars

\* C15: SamplePlaintext(num_coeffs, log_t) returns exactly num_coeffs
\* integers, each in [0, 2^log_t), and the same vector as the call before
\* when that had the same arguments.
C15_SamplePlaintextInRangeAndRepeatable ==
    out.op = "SamplePlaintext"
        => /\ Len(out.val.plaintext) = out.len
           /\ \A i \in 1..Len(out.val.plaintext) :
                /\ out.val.plaintext[i] >= 0
                /\ out.val.plaintext[i] < 2 ^ out.val.log_t
           /\ (out.val.before.len = out.len
                  /\ out.val.before.log_t = out.val.log_t)
                => out.val.before.plaintext = out.val.plaintext

\* C15 witness: two calls in a row with MaxCoeffs and the tests' log_t gave
\* the same vector, of coefficients that are not all the same.
C15_Witness ==
    /\ out.op = "SamplePlaintext"
    /\ out.len = MaxCoeffs /\ out.val.log_t = kTestLogT
    /\ out.val.before.len = MaxCoeffs /\ out.val.before.log_t = kTestLogT
    /\ Len(out.val.plaintext) = MaxCoeffs
    /\ out.val.plaintext = out.val.before.plaintext
    /\ \E i, j \in 1..MaxCoeffs : out.val.plaintext[i] # out.val.plaintext[j]
    /\ \A i \in 1..MaxCoeffs : out.val.plaintext[i] < 2 ^ kTestLogT

(***************************************************************************)
(* One call of a sampler or of ErrorParams::Create, on arguments of its    *)
(* own.                                                                    *)
(***************************************************************************)
\* The variances tried: those of sample_error_test, the engine's, the
\* multiples of 4 and of 32 around them, kMaxVariance, the next and its
\* double.
Variances ==
    {0, 1, 3, 4, 8, 15, variance, 29, 32, 50, 255, kMaxVariance,
     kMaxVariance + 1, 2 * kMaxVariance}

\* The moduli tried: below, at and above 4 * variance + 1, the key
\* channel's and the ciphertexts'.
Moduli == {3, 17, 4 * variance + 1, 97, p, q}

\* Where in its stream the PRNG stands when the sampler is called.
StreamOffsets == {0, 1, 10}

RECURSIVE BitsCounted(_)
\* The bits of a coefficient's draws that were counted.
BitsCounted(drawn) ==
    IF drawn = << >> THEN 0 ELSE Head(drawn).bits + BitsCounted(Tail(drawn))

\* SampleFromErrorDistribution(num_coeffs, variance, prng, modulus_params).
SampleError ==
    /\ pc = "start"
    /\ pc' = "sampled"
    /\ \E num_coeffs \in 0..MaxCoeffs, v \in Variances, seed \in Seeds,
          pos \in StreamOffsets, modulus \in Moduli :
         \E r \in {SampleFromErrorDistribution(num_coeffs, v, seed, pos,
                                                modulus)} :
            out' = Outcome("SampleFromErrorDistribution", num_coeffs,
                           r.status,
                           [variance |-> v, modulus |-> modulus,
                            coeffs |-> r.coeffs,
                            bits |-> [i \in 1..Len(r.drawn) |->
                                        BitsCounted(r.drawn[i])]])
    /\ UNCHANGED <<ndebug, alive, eng, key, ct, keySum, vecSum, nKeys, ctSum>>

\* ErrorParams::Create(log_t, variance, params, ntt_params) for a modulus
\* of log_modulus bits; log_t is an int and may be negative.
CreateErrorParams ==
    /\ pc = "start"
    /\ pc' = "created"
    /\ \E log_t \in (0 - 1)..(LogQ + 1), v \in Variances,
          log_modulus \in {BitLength(p), LogQ} :
         out' = Outcome("ErrorParamsCreate", log_t,
                        ErrorParamsCreate(log_t, v, log_modulus),
                        [variance |-> v, log_modulus |-> log_modulus])
    /\ UNCHANGED <<ndebug, alive, eng, key, ct, keySum, vecSum, nKeys, ctSum>>

\* The standard deviations tried, in tenths: the -1.0 and 12.8 of
\* sample_error_test, 0 and the engine's 4.5.
Stddevs == {0 - 10, 0, 45, 128}

\* The samples the Gaussian sampler hands out, in the order of its stream:
\* small ones of both signs, and ones that are multiples of a modulus or
\* lie beyond it.
GaussianSamples ==
    << 0, 0 - 1, 32, 0 - 32, 3, 0 - 3, 0 - 17, p, 0 - p, q, 0 - q,
       0 - (4 * variance + 1), 97 + 1, 0 - (q + 5) >>

\* SampleFromDiscreteGaussian(num_coeffs, stddev, prng, modulus_params),
\* the sampler standing at position start of its stream.
SampleGaussian ==
    /\ pc = "start"
    /\ pc' = "sampled"
    /\ \E num_coeffs \in 0..MaxCoeffs, stddev \in Stddevs,
          start \in 1..Len(GaussianSamples), modulus \in Moduli :
         \E samples \in {[i \in 1..num_coeffs |->
                             GaussianSamples[((start + i - 2)
                                                % Len(GaussianSamples)) + 1]]} :
          \E r \in {SampleFromDiscreteGaussian(num_coeffs, stddev, samples,
                                                modulus)} :
            out' = Outcome("SampleFromDiscreteGaussian", num_coeffs, r.status,
                           [stddev |-> stddev, modulus |-> modulus,
                            samples |-> samples, coeffs |-> r.coeffs])
    /\ UNCHANGED <<ndebug, alive, eng, key, ct, keySum, vecSum, nKeys, ctSum>>

SampleNext ==
    \/ SampleError
    \/ CreateErrorParams
    \/ SampleGaussian

SpecSample == Init /\ [][SampleNext]_vars

\* C16: for every variance v <= kMaxVariance, v = 0 included, every
\* modulus and every PRNG stream, SampleFromErrorDistribution returns
\* exactly num_coeffs coefficients, each c with c <= 2v or modulus - c <= 2v.
C16_NoiseWithinTwiceVariance ==
    (out.op = "SampleFromErrorDistribution"
       /\ out.val.variance <= kMaxVariance)
        => /\ out.status = "ok"
           /\ Len(out.val.coeffs) = out.len
           /\ \A i \in 1..Len(out.val.coeffs) :
                \/ out.val.coeffs[i] <= 2 * out.val.variance
                \/ out.val.modulus - out.val.coeffs[i]
                     <= 2 * out.val.variance

\* C16 witness: MaxCoeffs coefficients modulo q at the engine's variance,
\* the first at the upper end 2v and the second at the lower end q - 2v.
C16_Witness ==
    /\ out.op = "SampleFromErrorDistribution" /\ out.status = "ok"
    /\ out.val.variance = variance /\ out.val.modulus = q
    /\ Len(out.val.coeffs) = MaxCoeffs
    /\ out.val.coeffs[1] = 2 * variance
    /\ out.val.coeffs[2] = q - 2 * variance

\* The centered representative of c modulo m.
Centered(c, m) == IF c <= m \div 2 THEN c ELSE c - m

\* C17 as claimed: each coefficient is the set bits of v PRNG bits minus
\* the set bits of v others: 2v bits in all, a centered value in [-v, v].
C17_TwoVarianceBits ==
    (out.op = "SampleFromErrorDistribution" /\ out.status = "ok")
        => \A i \in 1..Len(out.val.coeffs) :
              /\ out.val.bits[i] = 2 * out.val.variance
              /\ Centered(out.val.coeffs[i], out.val.modulus)
                   \in (0 - out.val.variance)..out.val.variance

\* C17 as amended: each coefficient is the set bits of 2v PRNG bits minus
\* the set bits of 2v others: 4v bits in all, a centered value in
\* [-2v, 2v].
C17_FourVarianceBits ==
    (out.op = "SampleFromErrorDistribution" /\ out.status = "ok")
        => \A i \in 1..Len(out.val.coeffs) :
              /\ out.val.bits[i] = 4 * out.val.variance
              /\ Centered(out.val.coeffs[i], out.val.modulus)
                   \in (0 - 2 * out.val.variance)..(2 * out.val.variance)

\* C17 witness: at variance 3, where the loop masks 6 bits of a byte, a
\* coefficient modulo q drawn from 12 bits lies outside [-3, 3].
C17_Witness ==
    /\ out.op = "SampleFromErrorDistribution" /\ out.status = "ok"
    /\ out.val.variance = 3 /\ out.val.modulus = q
    /\ Len(out.val.coeffs) >= 1
    /\ out.val.bits[1] = 12
    /\ Centered(out.val.coeffs[1], q) \in {0 - 6, 0 - 5, 0 - 4, 4, 5, 6}

\* C18: ErrorParams::Create returns InvalidArgument for every
\* log_t >= log_modulus - 1, and succeeds only for
\* 0 < log_t < log_modulus - 1 with a variance of at most kMaxVariance.
C18_LogTBelowLogModulusMinusOne ==
    out.op = "ErrorParamsCreate"
        => /\ out.len >= out.val.log_modulus - 1
                => out.status = "InvalidArgument"
           /\ out.status = "ok"
                => /\ 0 < out.len
                   /\ out.len < out.val.log_modulus - 1
                   /\ out.val.variance <= kMaxVariance

\* C19: SampleFromErrorDistribution called with a variance above
\* kMaxVariance returns InvalidArgument and no coefficient vector, whatever
\* num_coeffs and the modulus.
C19_TooLargeVarianceIsInvalidArgument ==
    (out.op = "SampleFromErrorDistribution"
       /\ out.val.variance > kMaxVariance)
        => /\ out.status = "InvalidArgument"
           /\ out.val.coeffs = << >>

\* C19 witness: the call of FailOnTooLargeVariance, kMaxVariance + 1 with
\* MaxCoeffs coefficients asked for modulo q, was refused.
C19_Witness ==
    /\ out.op = "SampleFromErrorDistribution"
    /\ out.val.variance = kMaxVariance + 1
    /\ out.len = MaxCoeffs /\ out.val.modulus = q
    /\ out.status = "InvalidArgument"
    /\ out.val.coeffs = << >>

\* C20: SampleFromDiscreteGaussian with a negative stddev returns
\* InvalidArgument and no samples; with stddev >= 0 every coefficient it
\* returns exports to a value in [0, modulus).
C20_GaussianStddevAndRange ==
    out.op = "SampleFromDiscreteGaussian"
        => /\ out.val.stddev < 0
                => (out.status = "InvalidArgument" /\ out.val.coeffs = << >>)
           /\ out.val.stddev >= 0
                => \A i \in 1..Len(out.val.coeffs) :
                      /\ out.val.coeffs[i] >= 0
                      /\ out.val.coeffs[i] < out.val.modulus

\* C20 witness: at stddev 12.8 and modulus p, MaxCoeffs coefficients came
\* back, among them the sample -p as 0, the sample p as 0 and a sample
\* beyond the modulus reduced into [0, p).
C20_Witness ==
    /\ out.op = "SampleFromDiscreteGaussian" /\ out.status = "ok"
    /\ out.val.stddev = 128 /\ out.val.modulus = p
    /\ Len(out.val.coeffs) = MaxCoeffs
    /\ \E i, j, k \in 1..MaxCoeffs :
         /\ out.val.samples[i] = 0 - p /\ out.val.coeffs[i] = 0
         /\ out.val.samples[j] = p /\ out.val.coeffs[j] = 0
         /\ out.val.samples[k] = q /\ out.val.coeffs[k] = q % p

(***************************************************************************)
(* Two ChaChaPrng streams, each created from a key and then asked for      *)
(* bytes and words in any order.  out.val[i] holds stream i: the object,   *)
(* the calls made on it, what they returned, and the bytes consumed.       *)
(***************************************************************************)
Streams == {1, 2}

PrngCreate ==
    /\ pc = "start"
    /\ pc' = "streams"
    /\ \E key1 \in Seeds, key2 \in Seeds :
         out' = Outcome("ChaChaPrngCreate", 0, "ok",
                        [i \in Streams |->
                           [prng |-> ChaChaPrngCreate(IF i = 1 THEN key1
                                                      ELSE key2),
                            calls |-> << >>, outs |-> << >>,
                            consumed |-> 0]])
    /\ UNCHANGED <<ndebug, alive, eng, key, ct, keySum, vecSum, nKeys, ctSum>>

\* One call on stream i that returned r after drawing n bytes.
PrngCalled(i, op, r, n) ==
    out' = [out EXCEPT !.op = op,
                       !.val[i] = [prng |-> r.prng,
                                   calls |-> Append(@.calls, op),
                                   outs |-> Append(@.outs, r.val),
                                   consumed |-> @.consumed + n]]

PrngRand8(i) ==
    /\ pc = "streams"
    /\ Len(out.val[i].calls) < MaxCalls
    /\ PrngCalled(i, "Rand8", ChaChaPrngRand8(out.val[i].prng), 1)
    /\ UNCHANGED <<ndebug, alive, eng, key, ct, keySum, vecSum, nKeys, ctSum,
                   pc>>

PrngRand64(i) ==
    /\ pc = "streams"
    /\ Len(out.val[i].calls) < MaxCalls
    /\ PrngCalled(i, "Rand64", ChaChaPrngRand64(out.val[i].prng),
                  kRand64Bytes)
    /\ UNCHANGED <<ndebug, alive, eng, key, ct, keySum, vecSum, nKeys, ctSum,
                   pc>>

PrngNext ==
    \/ PrngCreate
    \/ \E i \in Streams : PrngRand8(i)
    \/ \E i \in Streams : PrngRand64(i)

SpecPrng == Init /\ [][PrngNext]_vars

\* The number of buffers a stream has derived once it has handed out
\* `consumed` bytes: the first at creation, one more each time a byte is
\* asked for with the buffer exhausted.
BuffersDerived(consumed) ==
    IF consumed = 0 THEN 1 ELSE 1 + (consumed - 1) \div kChaChaOutputBytes

DrawRun(num_coeffs, v, modulus, seed, pos) ==
    [seed |-> seed, pos |-> pos,
     r |-> SampleFromErrorDistribution(num_coeffs, v, seed, pos, modulus)]

DrawFirst ==
    /\ pc = "start"
    /\ pc' = "first"
    /\ \E num_coeffs \in 0..MaxCoeffs, v \in Variances, modulus \in Moduli,
          seed \in Seeds, pos \in StreamOffsets :
         \E run \in {DrawRun(num_coeffs, v, modulus, seed, pos)} :
            out' = Outcome("DrawFirst", num_coeffs, run.r.status,
                           [variance |-> v, modulus |-> modulus,
                            runs |-> << run >>])
    /\ UNCHANGED <<ndebug, alive, eng, key, ct, keySum, vecSum, nKeys, ctSum>>

DrawSecond ==
    /\ pc = "first"
    /\ pc' = "second"
    /\ \E seed \in Seeds, pos \in StreamOffsets :
         \E run \in {DrawRun(out.len, out.val.variance, out.val.modulus,
                             seed, pos)} :
            out' = [out EXCEPT !.op = "DrawSecond",
                               !.val.runs = Append(@, run)]
    /\ UNCHANGED <<ndebug, alive, eng, key, ct, keySum, vecSum, nKeys, ctSum>>

DrawNext ==
    \/ DrawFirst
    \/ DrawSecond

SpecDraw == Init /\ [][DrawNext]_vars

RECURSIVE BytesOf(_)
\* The bytes a coefficient's draws consume.
BytesOf(drawn) ==
    IF drawn = << >> THEN 0
    ELSE (IF Head(drawn).call = "Rand64" THEN 8 ELSE 1) + BytesOf(Tail(drawn))

RECURSIVE BytesOfAll(_)
BytesOfAll(drawns) ==
    IF drawns = << >> THEN 0
    ELSE BytesOf(Head(drawns)) + BytesOfAll(Tail(drawns))

\* Two accepted runs: the same calls for every coefficient whatever was
\* drawn, the stream advanced by what the calls consume, equal results
\* from equal PRNG states, and `budget` bits consumed for each coefficient.
DrawsAgree(budget) ==
    (pc = "second" /\ out.status = "ok") =>
      LET a == out.val.runs[1]
          b == out.val.runs[2]
      IN  /\ a.r.drawn = b.r.drawn
          /\ Len(a.r.drawn) = out.len
          /\ a.r.pos = a.pos + BytesOfAll(a.r.drawn)
          /\ b.r.pos = b.pos + BytesOfAll(b.r.drawn)
          /\ (a.seed = b.seed /\ a.pos = b.pos)
               => (a.r.coeffs = b.r.coeffs /\ a.r.pos = b.r.pos)
          /\ \A i \in 1..out.len : 8 * BytesOf(a.r.drawn[i]) = budget

\* C22 as claimed: for fixed num_coeffs and variance v the sampler issues
\* the same sequence of Rand64/Rand8 calls whatever is drawn, two runs from
\* equal PRNG states return equal vectors and leave the PRNG at the same
\* position, and each coefficient consumes exactly 2v bits of the stream.
C22_ConsumesTwoVarianceBits == DrawsAgree(2 * out.val.variance)

\* C22 as the sampler behaves: the same, with each coefficient consuming
\* exactly 2 * ceil(v / 4) bytes of the stream, 16 * ceil(v / 4) bits.
C22_ConsumesWholeBytePairs == DrawsAgree(16 * ((out.val.variance + 3) \div 4))

\* Two runs of a variance that is no multiple of 4, over several
\* coefficients, on PRNGs of different seeds: different vectors from the
\* same calls.
C22_Witness ==
    /\ pc = "second" /\ out.status = "ok" /\ out.len = MaxCoeffs
    /\ out.val.variance = 29
    /\ out.val.runs[1].seed # out.val.runs[2].seed
    /\ out.val.runs[1].pos = out.val.runs[2].pos
    /\ out.val.runs[1].r.coeffs # out.val.runs[2].r.coeffs
    /\ out.val.runs[1].r.drawn = out.val.runs[2].r.drawn
    /\ out.val.runs[1].r.pos = out.val.runs[2].r.pos
    /\ out.val.runs[1].r.pos > out.val.runs[1].pos

(***************************************************************************)
(* ErrorParamsTest.EncryptionError: a context is created, a key sampled,   *)
(* a plaintext with coefficients in [0, t) encrypted, and the norm of      *)
(* c0 + c1 * s compared with B_encryption.  A coefficient of c0 + c1 * s   *)
(* is m + t * e whatever the degree of the ring, so the bound is taken at  *)
(* the degree of the program's rings while the ring arithmetic runs at N.  *)
(***************************************************************************)
\* number_coeffs of the contexts created.
Dimensions == {2 ^ kLogN}

\* Plaintexts with coefficients in [0, t), t = 2^log_t + 1: all zero, all
\* t - 1, and a mixed one.
PlaintextBelowT(kind, log_t) ==
    [i \in 1..N |-> IF kind = 1 THEN 0
                    ELSE IF kind = 2 THEN PlaintextModulus(log_t) - 1
                    ELSE (5 * i + 3) % PlaintextModulus(log_t)]

\* GetErrorAndMessage: c0 + c1 * s, each coefficient x above modulus >> 1
\* replaced by modulus - x.
GetErrorAndMessage(k, c) ==
    LET d == PolyAdd(c.c0, PolyMul(c.c1, k.poly))
    IN  [i \in 1..N |-> IF d[i] > q \div 2 THEN q - d[i] ELSE d[i]]

RECURSIVE ComputeNorm(_)
\* ComputeNorm: the largest coefficient.
ComputeNorm(coeffs) ==
    IF coeffs = << >> THEN 0
    ELSE LET rest == ComputeNorm(Tail(coeffs))
         IN  IF Head(coeffs) > rest THEN Head(coeffs) ELSE rest

\* RlweContext::Create(params): the parameters are kept and the error
\* constants computed, unless ErrorParams::Create refuses them.
FreshContext ==
    /\ pc = "start"
    /\ pc' = "context"
    /\ \E log_t \in 0..LogQ, v \in Variances, dimension \in Dimensions :
         out' = Outcome("RlweContextCreate", dimension,
                        ErrorParamsCreate(log_t, v, LogQ),
                        [log_t |-> log_t, variance |-> v,
                         b_encryption |-> B_encryption(log_t, v, dimension)])
    /\ UNCHANGED <<ndebug, alive, eng, key, ct, keySum, vecSum, nKeys, ctSum>>

\* SampleKey, Encrypt and GetErrorAndMessage on PRNGs of their own.
FreshEncrypt ==
    /\ pc = "context" /\ out.status = "ok"
    /\ pc' = "encrypted"
    /\ \E key_seed \in Seeds, kind \in PlaintextKinds, a_seed \in Seeds,
          seed \in Seeds :
         \E k \in {KeySample(out.val.variance, out.val.log_t, key_seed).key} :
          \E r \in {RlweEncrypt(k, PlaintextBelowT(kind, out.val.log_t),
                                SamplePolynomialFromPrng(N, a_seed, 0).coeffs,
                                out.val, seed, 0)} :
            out' = [out EXCEPT
                      !.op = "Encrypt",
                      !.status = r.status,
                      !.val = [log_t |-> @.log_t, variance |-> @.variance,
                               b_encryption |-> @.b_encryption,
                               error_and_message |->
                                 GetErrorAndMessage(k, r.ct)]]
    /\ UNCHANGED <<ndebug, alive, eng, key, ct, keySum, vecSum, nKeys, ctSum>>

FreshNext ==
    \/ FreshContext
    \/ FreshEncrypt

SpecFresh == Init /\ [][FreshNext]_vars

NumParts == 1..3
\* Substitution powers: 1 for a relinearization key, 2 * N - 1 for a
\* Galois key.
SubstitutionPowers == {1, 2 * N - 1}
\* log_decomposition_modulus asked of Create: the tests' small one, the
\* tests' large one (one below the bits of int), the bits of int, the bits
\* of the modulus, and the two nearest values Create refuses.
LogDecompositionModuli ==
    {0, (LogQ + 3) \div 4, IntWidthBits - 1, IntWidthBits, LogQ, LogQ + 1}
\* Calls of ApplyTo in one run.
MaxApplied == 2

NoCiphertext == [c |-> << >>, power_of_s |-> 0, error |-> 0]

\* The ErrorParams of the context of the keys.
RelinErrorParams ==
    [log_t |-> kLogPlaintextModulus, variance |-> variance, dimension |-> N,
     b_encryption |-> B_encryption(kLogPlaintextModulus, variance, N)]

RelinCreate ==
    /\ pc = "start"
    /\ pc' = "created"
    /\ \E key_seed \in KeySeeds, prng_type \in PrngTypes,
          num_parts \in NumParts,
          log_decomposition_modulus \in LogDecompositionModuli,
          substitution_power \in SubstitutionPowers,
          prng_seed \in Seeds, prng_encryption_seed \in Seeds :
         \E k \in {KeySample(variance, kLogPlaintextModulus, key_seed).key} :
          \E r \in {RelinearizationKeyCreate(
                      k, prng_type, num_parts, log_decomposition_modulus,
                      substitution_power, prng_seed, prng_encryption_seed)} :
            /\ key' = k
            /\ out' = Outcome("RelinearizationKeyCreate", num_parts, r.status,
                              [rk |-> r.key, ct |-> NoCiphertext,
                               input |-> NoCiphertext,
                               result |-> NoCiphertext,
                               message |-> "",
                               serialized |-> << >>,
                               deserialized |-> NoRelinearizationKey,
                               applied |-> 0])
    /\ UNCHANGED <<ndebug, alive, eng, ct, keySum, vecSum, nKeys, ctSum>>

\* rlwe::Encrypt under the key: a fresh ciphertext of two components.
RelinEncrypt ==
    /\ pc = "deserialized" /\ out.status = "ok"
    /\ pc' = "ciphertext"
    /\ \E kind \in PlaintextKinds, seed \in Seeds :
         \E r \in {RlweEncrypt(key,
                               PlaintextBelowT(kind, kLogPlaintextModulus),
                               SamplePolynomialFromPrng(N, seed, 0).coeffs,
                               RelinErrorParams, seed, 8 * N * LogQ)} :
           out' = [out EXCEPT
                     !.op = "Encrypt", !.status = r.status,
                     !.val.ct = [c |-> << r.ct.c0, r.ct.c1 >>,
                                 power_of_s |-> r.ct.power_of_s,
                                 error |-> r.ct.error]]
    /\ UNCHANGED <<ndebug, alive, eng, key, ct, keySum, vecSum, nKeys, ctSum>>

\* ciphertext.Substitute(power) with the power of a Galois key.
RelinSubstitute ==
    /\ pc = "ciphertext"
    /\ out.val.applied < MaxApplied
    /\ \E power \in SubstitutionPowers \ {1} :
         out' = [out EXCEPT
                   !.op = "Substitute", !.status = "ok",
                   !.val.ct = CiphertextSubstitute(@, power)]
    /\ UNCHANGED <<ndebug, alive, eng, key, ct, keySum, vecSum, nKeys, ctSum,
                   pc>>

\* ciphertext * ciphertext, as the tests form it from ciphertexts no key
\* was applied to: three components.
RelinMultiply ==
    /\ pc = "ciphertext"
    /\ out.val.applied = 0
    /\ Len(out.val.ct.c) = 2
    /\ out' = [out EXCEPT
                 !.op = "Multiply", !.status = "ok",
                 !.val.ct = CiphertextMul(@, @)]
    /\ UNCHANGED <<ndebug, alive, eng, key, ct, keySum, vecSum, nKeys, ctSum,
                   pc>>

\* RelinearizationKey::ApplyTo on the caller's ciphertext, which the result
\* replaces when the call succeeds.
RelinApplyTo ==
    /\ pc = "ciphertext"
    /\ out.val.applied < MaxApplied
    /\ \E decomposition_modulus \in
            OneShiftedLeft(out.val.rk.log_decomposition_modulus) :
         \E r \in {RelinearizationKeyApplyTo(out.val.rk, out.val.ct,
                                             RelinErrorParams,
                                             decomposition_modulus)} :
           out' = [out EXCEPT
                     !.op = "ApplyTo", !.status = r.status,
                     !.val.input = out.val.ct,
                     !.val.result = IF r.status = "ok" THEN r.ct
                                    ELSE NoCiphertext,
                     !.val.message = r.message,
                     !.val.ct = IF r.status = "ok" THEN r.ct ELSE @,
                     !.val.applied = @ + 1]
    /\ UNCHANGED <<ndebug, alive, eng, key, ct, keySum, vecSum, nKeys, ctSum,
                   pc>>

\* RelinearizationKey::Serialize.
RelinSerialize ==
    /\ pc = "created" /\ out.status = "ok"
    /\ pc' = "serialized"
    /\ out' = [out EXCEPT
                 !.op = "Serialize",
                 !.val.serialized =
                   << RelinearizationKeySerialize(out.val.rk) >>]
    /\ UNCHANGED <<ndebug, alive, eng, key, ct, keySum, vecSum, nKeys, ctSum>>

\* RelinearizationKey::Deserialize of what Serialize returned.
RelinDeserialize ==
    /\ pc = "serialized"
    /\ pc' = "deserialized"
    /\ \E r \in {RelinearizationKeyDeserialize(out.val.serialized[1])} :
         out' = [out EXCEPT
                   !.op = "Deserialize", !.status = r.status,
                   !.val.deserialized = r.key]
    /\ UNCHANGED <<ndebug, alive, eng, key, ct, keySum, vecSum, nKeys, ctSum>>

RelinNext ==
    \/ RelinCreate
    \/ RelinSerialize
    \/ RelinDeserialize
    \/ RelinEncrypt
    \/ RelinSubstitute
    \/ RelinMultiply
    \/ RelinApplyTo

SpecRelin == Init /\ [][RelinNext]_vars

\* C24: ApplyTo on a ciphertext with more components than the key's
\* num_parts returns InvalidArgument, saying that the key is not large
\* enough for the ciphertext, and returns no ciphertext.
C24_TooManyComponentsIsInvalidArgument ==
    (out.op = "ApplyTo" /\ Len(out.val.input.c) > out.val.rk.num_parts)
      => /\ out.status = "InvalidArgument"
         /\ out.val.message
              = "RelinearizationKey not large enough for ciphertext."
         /\ out.val.result = NoCiphertext
         /\ out.val.ct = out.val.input

\* The product of a ciphertext with itself handed to a key of two parts.
C24_Witness ==
    /\ out.op = "ApplyTo"
    /\ Len(out.val.input.c) = 3 /\ out.val.rk.num_parts = 2
    /\ out.status = "InvalidArgument"

\* C25: whenever ApplyTo succeeds, the ciphertext it returns has exactly
\* two components and PowerOfS 1, whatever the length and PowerOfS of its
\* input; so every run of substitutions and applications ends with
\* PowerOfS 1.
C25_ResultHasTwoComponentsPowerOne ==
    (out.op = "ApplyTo" /\ out.status = "ok")
      => /\ Len(out.val.result.c) = 2
         /\ out.val.result.power_of_s = 1
         /\ out.val.ct = out.val.result

\* A second successful ApplyTo, on a substituted ciphertext.
C25_Witness ==
    /\ out.op = "ApplyTo" /\ out.status = "ok"
    /\ out.val.applied = 2
    /\ out.val.input.power_of_s = 2 * N - 1
    /\ Len(out.val.result.c) = 2

\* C26: the key Deserialize builds from what Serialize returned has the
\* matrices Create built, second rows included, and the other fields of
\* the key; both keys turn the caller's ciphertext into the same result.
C26_DeserializedKeyIsTheKey ==
    (pc \in {"deserialized", "ciphertext"})
      => /\ out.status = "ok" \/ out.op = "ApplyTo"
         /\ out.val.deserialized.relinearization_key
              = out.val.rk.relinearization_key
         /\ out.val.deserialized = out.val.rk
         /\ \A decomposition_modulus \in
                 OneShiftedLeft(out.val.rk.log_decomposition_modulus) :
              RelinearizationKeyApplyTo(out.val.deserialized, out.val.ct,
                                        RelinErrorParams,
                                        decomposition_modulus)
                = RelinearizationKeyApplyTo(out.val.rk, out.val.ct,
                                            RelinErrorParams,
                                            decomposition_modulus)

\* A key of two parts of several columns each, read back, and a ciphertext
\* of three components it applies to.
C26_Witness ==
    /\ pc = "ciphertext"
    /\ Len(out.val.rk.relinearization_key) = 2
    /\ out.val.rk.dimension >= 2
    /\ out.val.rk.prng_type = "PRNG_TYPE_CHACHA"
    /\ Len(out.val.ct.c) = 3
    /\ \E decomposition_modulus \in
            OneShiftedLeft(out.val.rk.log_decomposition_modulus) :
         RelinearizationKeyApplyTo(out.val.deserialized, out.val.ct,
                                   RelinErrorParams,
                                   decomposition_modulus).status = "ok"

\* C29: B_relinearize is strictly positive for every number of components
\* and every log_decomposition_modulus Create accepts, so the error of the
\* ciphertext ApplyTo returns is greater than the error of its input.
C29_RelinearizeErrorIsPositive ==
    (out.op = "ApplyTo" /\ out.status = "ok")
      => out.val.result.error > out.val.input.error

(***************************************************************************)
(* The seed GetSeed() hands out, against the seeds of the PRNGs the secret *)
(* material was drawn from; checked under Spec.                            *)
(***************************************************************************)
\* C27: the value GetSeed() returns is never the seed of the PRNG the
\* caller's key was sampled from, nor the seed of the PRNG the errors of the
\* last Encrypt were drawn from.
C27_GetSeedIsNotASecretSeed ==
    (out.op = "GetSeed" /\ out.status = "ok" /\ out.val[1] # NoSeed)
      => /\ key # NoKey
              => KeySample(variance, eng[1].log_t, out.val[1]).key # key
         /\ ct[1].have => ct[1].prng_seed # out.val[1]

\* C28: on every engine the constructor accepts, input_size below N
\* included, Encrypt on a plaintext of input_size coefficients completes and
\* returns K = input_size / N ciphertexts, and splitVector is never run
\* with a part count of 0.
C28_EncryptCompletesForEveryEngine ==
    (out.op = "Encrypt" /\ out.len = eng[1].input_size)
        => /\ out.status = "ok"
           /\ Len(ct[1].cts) = eng[1].input_size \div N
           /\ eng[1].num_split # 0

(***************************************************************************)
(* One process calling SampleFromDiscreteGaussian several times, each time *)
(* with a standard deviation, a PRNG and a modulus of its choice.          *)
(* out.val holds the static sampler, the arguments and result of the last  *)
(* call, and the number of calls made.                                     *)
(***************************************************************************)
\* One call that found the static sampler `sampler` and was call number n.
GaussCall(sampler, n) ==
    \E num_coeffs \in {1, MaxCoeffs}, stddev \in Stddevs, seed \in Seeds,
       pos \in StreamOffsets, modulus \in Moduli :
      \E r \in {SampleFromDiscreteGaussianCall(sampler, num_coeffs, stddev,
                                               seed, pos, modulus)} :
        out' = Outcome("SampleFromDiscreteGaussian", num_coeffs, r.status,
                       [sampler |-> r.sampler, stddev |-> stddev,
                        seed |-> seed, pos |-> pos, modulus |-> modulus,
                        coeffs |-> r.coeffs, calls |-> n])

\* The first call of the process.
GaussFirst ==
    /\ pc = "start"
    /\ pc' = "called"
    /\ GaussCall(NoSampler, 1)
    /\ UNCHANGED <<ndebug, alive, eng, key, ct, keySum, vecSum, nKeys, ctSum>>

\* A later call of the same process.
GaussAgain ==
    /\ pc = "called"
    /\ out.val.calls < MaxCalls
    /\ GaussCall(out.val.sampler, out.val.calls + 1)
    /\ UNCHANGED <<ndebug, alive, eng, key, ct, keySum, vecSum, nKeys, ctSum,
                   pc>>

GaussNext ==
    \/ GaussFirst
    \/ GaussAgain

SpecGauss == Init /\ [][GaussNext]_vars

\* C30: what a call returns is a function of its arguments and of the PRNG
\* state: it is what the first call of a process returns for them, the
\* base sampler being the one created from the call's own stddev.
C30_GaussianDependsOnArgumentsOnly ==
    pc = "called"
      => /\ out.val.coeffs
              = SampleFromDiscreteGaussianCall(
                  NoSampler, out.len, out.val.stddev, out.val.seed,
                  out.val.pos, out.val.modulus).coeffs
         /\ out.val.stddev >= 0
              => out.val.sampler = DGSamplerCreate(out.val.stddev)

=============================================================================
